---------------------------- MODULE Spec2Model ----------------------------
(***************************************************************************)
(* Insider-threat detection backend (deepakuy/insider-detect).             *)
(*                                                                         *)
(* The model covers the behavioural scoring pipeline:                      *)
(*   - FeatureEngineer.compute_batch_features (features/engineering.py)    *)
(*   - predict_threat, get_threat_level, map_to_mitre, load_ml_models      *)
(*     (app/main.py)                                                       *)
(*                                                                         *)
(* Units.  Timestamps are whole minutes since midnight of day 0.           *)
(* Estimator outputs are probabilities in hundredths (85 is 0.85).  The    *)
(* ensemble mean (rf + xgb) / 2 is kept exact by measuring scores and      *)
(* thresholds in two-hundredths: the mean of 70 and 85 hundredths is 155   *)
(* two-hundredths, and the threshold 0.85 is 170.  Ratios are reduced      *)
(* fractions <<num, den>>.  Entropy is in thousandths of a nat.            *)
(***************************************************************************)
EXTENDS Integers, Sequences, FiniteSets, TLC

VARIABLES
    rf_model,            \* main.py:78   "None" or "loaded"
    xgb_model,           \* main.py:79
    scaler,              \* main.py:80
    THRESHOLD_CRITICAL,  \* main.py:50   read from the environment at import
    THRESHOLD_HIGH,      \* main.py:51
    THRESHOLD_MEDIUM,    \* main.py:52
    events,              \* the events table (models.py:44), in id order
    alerts,              \* the alerts table (models.py:70), in id order
    history,             \* the /api/predict calls made so far, in order
    incidents,           \* the incidents table (models.py:100), in id order
    utcnow,              \* the clock read by datetime.utcnow()
    sessions,            \* the correlator call each worker is inside of
    results,             \* the correlator calls finished so far, in order
    returned             \* the lookups made so far, in order

vars == <<rf_model, xgb_model, scaler, THRESHOLD_CRITICAL, THRESHOLD_HIGH,
          THRESHOLD_MEDIUM, events, alerts, history, incidents, utcnow,
          sessions, results, returned>>

\* What the scoring service never touches.
correlator_vars == <<incidents, utcnow, sessions, results, returned>>

---------------------------------------------------------------------------
(* Bounds of the model and constants of the program.                       *)

\* Longest sequence of /api/predict calls explored by Spec.
MaxCalls == 2
\* Longest event log explored by SpecFeatures.
MaxEvents == 3
\* Lookups made in a run of the table functions.
MaxLookups == 2
\* Correlator calls started in a correlation run.
MaxCorrelations == 2
\* Correlator calls started in a run of the direct calls.
MaxDirectCalls == 1

\* pd.Timedelta(hours=1) and rolling('1H'), in minutes.
Hour == 60
\* pd.Timedelta(hours=24) and rolling('24H'), in minutes.
Day == 1440
\* The default thresholds 0.85, 0.70, 0.50 in two-hundredths.
DEFAULT_CRITICAL == 170
DEFAULT_HIGH == 140
DEFAULT_MEDIUM == 100
\* Python's None for an optional string field.
None == "None"

\* The clock when the service starts: 18:00 of day 0.
StartClock == 18 * Hour

\* One step of the clock: half an hour.
TickStep == Hour \div 2

Quarter == Hour \div 4

---------------------------------------------------------------------------
(* Arithmetic helpers.                                                     *)

Min(S) == CHOOSE x \in S : \A y \in S : x <= y
Max(S) == CHOOSE x \in S : \A y \in S : x >= y

RECURSIVE GCD(_, _)
GCD(a, b) == IF b = 0 THEN a ELSE GCD(b, a % b)

\* The quotient n / d of two non-negative integers, d > 0, as a reduced fraction.
Ratio(n, d) == LET g == GCD(n, d) IN <<n \div g, d \div g>>
Zero == <<0, 1>>

RECURSIVE SumOver(_, _)
\* Sum of f[x] over the finite set S.
SumOver(S, f) ==
    IF S = {} THEN 0
    ELSE LET x == CHOOSE y \in S : TRUE IN f[x] + SumOver(S \ {x}, f)

\* Sum of the entries lo..hi of the sequence s.
SumRange(s, lo, hi) == SumOver(lo..hi, s)

\* 1000 * ln(n) rounded, n = 1..10.
Ln1000 == <<0, 693, 1099, 1386, 1609, 1792, 1946, 2079, 2197, 2303>>

---------------------------------------------------------------------------
(* Events (schemas.py EventInput) and the entity ids.                      *)

Users == {"user007", "user042"}
\* The order Python gives the entity ids as strings.
UserRank == [u \in Users |-> IF u = "user007" THEN 1 ELSE 2]

Event(ts, user, etype, dst, file, bytes, geo) ==
    [timestamp |-> ts, user_id |-> user, event_type |-> etype, dst_ip |-> dst,
     file_name |-> file, bytes_transferred |-> bytes, geo_country |-> geo]

\* Python's truth value of an Optional[str].
Truthy(x) == x # None /\ x # ""

\* The DataFrame row predict_threat builds from an event.
event_row(event) ==
    [timestamp |-> event.timestamp,
     user_id |-> event.user_id,
     dst_ip |-> event.dst_ip,
     event_type |-> event.event_type,
     file_name |-> IF Truthy(event.file_name) THEN event.file_name ELSE "",
     bytes_transferred |-> event.bytes_transferred,
     geo_country |-> IF Truthy(event.geo_country) THEN event.geo_country ELSE "US"]

\* A DataFrame of rows, each labelled with its position (the RangeIndex).
DataFrame(rows) == [i \in 1..Len(rows) |-> [row_id |-> i] @@ rows[i]]


---------------------------------------------------------------------------
(* pandas operations used by compute_batch_features.                       *)

\* The order of two-part sort keys: by the first part, then by the second.
KeyLess(a, b) == a[1] < b[1] \/ (a[1] = b[1] /\ a[2] < b[2])

\* A stable sort of rows by their keys: a row moves ahead of another only
\* when its key is smaller; rows with equal keys keep their input order.
StableSort(rows, keys) ==
    LET n == Len(rows)
        pos(i) == 1 + Cardinality({j \in 1..n :
                        \/ KeyLess(keys[j], keys[i])
                        \/ (keys[j] = keys[i] /\ j < i)})
    IN [p \in 1..n |-> rows[CHOOSE i \in 1..n : pos(i) = p]]

\* Mutant of sort_values: sorted by user_id only.
sort_values_by_user(df) ==
    StableSort(df, [i \in 1..Len(df) |-> <<UserRank[df[i].user_id], 0>>])

\* df.sort_values(['user_id', 'timestamp']): lexicographic and stable.
sort_values(df) ==
    StableSort(df, [i \in 1..Len(df) |->
                      <<UserRank[df[i].user_id], df[i].timestamp>>])

\* group.sort_index() on the timestamp index.
sort_index(group) ==
    StableSort(group, [i \in 1..Len(group) |-> <<0, group[i].timestamp>>])

\* df.groupby('user_id'): the keys in sorted order, and the rows of one key.
group_keys(df) == {df[i].user_id : i \in 1..Len(df)}
\* Mutant of group_of: every entity's group holds the rows of all entities.
group_of_shared(df, user) == df
group_of(df, user) == SelectSeq(df, LAMBDA r : r.user_id = user)

RECURSIVE RollingStartClosed(_, _, _)
\* Mutant of RollingStart: the window closed on both sides, so that a row
\* exactly W older than row i stays in.
RollingStartClosed(ts, i, W) ==
    IF i = 1 THEN 1
    ELSE LET prev == RollingStartClosed(ts, i - 1, W)
             inside == {j \in prev..(i - 1) : ts[j] >= ts[i] - W}
         IN IF inside = {} THEN i ELSE Min(inside)

RECURSIVE RollingStart(_, _, _)
\* First row of the window rolling(W) gives row i of a time-sorted index ts
\* (closed on the right): the window start only moves forward, to the first
\* row whose timestamp is later than ts[i] - W; the window ends at row i.
RollingStart(ts, i, W) ==
    IF i = 1 THEN 1
    ELSE LET prev == RollingStart(ts, i - 1, W)
             inside == {j \in prev..(i - 1) : ts[j] > ts[i] - W}
         IN IF inside = {} THEN i ELSE Min(inside)

\* series.rolling(W).sum()
rolling_sum(values, ts, W) ==
    [i \in 1..Len(values) |-> SumRange(values, RollingStart(ts, i, W), i)]

\* series.rolling(W).mean()
rolling_mean(values, ts, W) ==
    [i \in 1..Len(values) |->
        Ratio(SumRange(values, RollingStart(ts, i, W), i),
              i - RollingStart(ts, i, W) + 1)]

---------------------------------------------------------------------------
(* The sliding windows of compute_batch_features (engineering.py:57-98).   *)

\* collections.Counter operations.
EmptyCounter == [k \in {} |-> 0]
\* Mutant of CounterAdd: the count is set to 1 instead of incremented.
CounterAddOnce(counts, val) ==
    [k \in DOMAIN counts \cup {val} |-> IF k = val THEN 1 ELSE counts[k]]
CounterAdd(counts, val) ==
    IF val \in DOMAIN counts THEN [counts EXCEPT ![val] = @ + 1]
    ELSE [k \in DOMAIN counts \cup {val} |-> IF k = val THEN 1 ELSE counts[k]]
CounterGet(counts, val) == IF val \in DOMAIN counts THEN counts[val] ELSE 0
CounterDel(counts, val) == [k \in DOMAIN counts \ {val} |-> counts[k]]

\* The eviction test of update_window's while loop.
is_expired(age, max_delta) == age > max_delta

RECURSIVE update_window(_, _, _, _)
\* Evict old entries from the front of the deque and from the counter.
update_window(window, counts, current_time, max_delta) ==
    IF window # <<>> /\ is_expired(current_time - window[1][1], max_delta)
    THEN LET old_val == window[1][2]
             left == CounterGet(counts, old_val) - 1
             counts1 == IF left <= 0 THEN CounterDel(counts, old_val)
                        ELSE [k \in DOMAIN counts \cup {old_val} |->
                                 IF k = old_val THEN left ELSE counts[k]]
         IN update_window(Tail(window), counts1, current_time, max_delta)
    ELSE [window |-> window, counts |-> counts]

\* Mutant of entropy_input: one value per deque entry instead of one per
\* distinct address.
entropy_input_per_entry(window, counts) == [i \in 1..Len(window) |-> 1]

\* The values the entropy is taken over: the counter's values.
entropy_input(window, counts) == counts

\* float(entropy(probs)) for probs = counts / counts.sum(): the Shannon entropy
\* ln N - (sum c ln c) / N of the frequency distribution, in thousandths.
entropy(counts) ==
    LET N == SumOver(DOMAIN counts, counts)
        weighted == [k \in DOMAIN counts |-> counts[k] * Ln1000[counts[k]]]
    IN Ln1000[N] - (SumOver(DOMAIN counts, weighted) \div N)

\* The state of the per-entity loop before its first row.
loop_init ==
    [one_hour_window |-> <<>>, one_hour_counts |-> EmptyCounter,
     one_hour_entropy |-> <<>>, one_hour_uniques |-> <<>>,
     twentyfour_window |-> <<>>, twentyfour_counts |-> EmptyCounter,
     twentyfour_uniques |-> <<>>]

\* One iteration of "for ts, row in group.sort_index().iterrows()".
loop_step(st, row) ==
    LET ts == row.timestamp
        h == update_window(st.one_hour_window, st.one_hour_counts, ts, Hour)
        has_dst == Truthy(row.dst_ip)
        w1 == IF has_dst THEN Append(h.window, <<ts, row.dst_ip>>) ELSE h.window
        c1 == IF has_dst THEN CounterAdd(h.counts, row.dst_ip) ELSE h.counts
        ent == IF DOMAIN c1 # {} THEN entropy(entropy_input(w1, c1)) ELSE 0
        d == update_window(st.twentyfour_window, st.twentyfour_counts, ts, Day)
        fname == row.file_name
        has_file == Truthy(fname)
        w24 == IF has_file THEN Append(d.window, <<ts, fname>>) ELSE d.window
        c24 == IF has_file THEN CounterAdd(d.counts, fname) ELSE d.counts
    IN [one_hour_window |-> w1, one_hour_counts |-> c1,
        one_hour_entropy |-> Append(st.one_hour_entropy, ent),
        one_hour_uniques |-> Append(st.one_hour_uniques, Cardinality(DOMAIN c1)),
        twentyfour_window |-> w24, twentyfour_counts |-> c24,
        twentyfour_uniques |-> Append(st.twentyfour_uniques, Cardinality(DOMAIN c24))]

RECURSIVE loop_state(_, _)
\* The loop's state after the first k rows of a group.
loop_state(rows, k) ==
    IF k = 0 THEN loop_init ELSE loop_step(loop_state(rows, k - 1), rows[k])

---------------------------------------------------------------------------
(* FeatureEngineer.compute_batch_features (engineering.py:29-115).         *)

feature_columns ==
    <<"login_count_1h", "failed_login_rate_1h", "bytes_transferred_1h",
      "unique_dst_ips_1h", "unique_files_24h", "off_hours_ratio_24h",
      "privilege_change_flag", "geo_anomaly_score", "dst_ip_entropy_1h">>

\* The flag of line 45: 1 when the hour of day is before 6 or from 18 on.
is_off_hours(ts) ==
    LET h == (ts \div 60) % 24 IN IF h < 6 \/ h >= 18 THEN 1 ELSE 0

\* Mutant of failed_login_rate: the share of successes instead of failures.
success_login_rate(fails_1h, logins_1h) ==
    IF logins_1h = 0 THEN Zero ELSE Ratio(logins_1h - fails_1h, logins_1h)

\* Mutant of failed_login_rate: without fillna(0), so that 0 / NaN stays NaN
\* (written as the fraction 0/0).
failed_login_rate_unfilled(fails_1h, logins_1h) ==
    IF logins_1h = 0 THEN <<0, 0>> ELSE Ratio(fails_1h, logins_1h)

\* (fails_1h / logins_1h.replace(0, np.nan)).fillna(0)
failed_login_rate(fails_1h, logins_1h) ==
    IF logins_1h = 0 THEN Zero ELSE Ratio(fails_1h, logins_1h)

\* The body of "for user, group in df.groupby('user_id')": the rows of one
\* entity, sorted by timestamp, each extended with the nine feature columns.
group_features(group) ==
    LET n == Len(group)
        ts == [i \in 1..n |-> group[i].timestamp]
        is_login_success ==
            [i \in 1..n |-> IF group[i].event_type = "login_success" THEN 1 ELSE 0]
        is_login_fail ==
            [i \in 1..n |-> IF group[i].event_type = "login_fail" THEN 1 ELSE 0]
        off == [i \in 1..n |-> is_off_hours(ts[i])]
        login_count_1h == rolling_sum(is_login_success, ts, Hour)
        logins_1h ==
            rolling_sum([i \in 1..n |-> is_login_success[i] + is_login_fail[i]], ts, Hour)
        fails_1h == rolling_sum(is_login_fail, ts, Hour)
        bytes_1h ==
            rolling_sum([i \in 1..n |-> group[i].bytes_transferred], ts, Hour)
        off_ratio == rolling_mean(off, ts, Day)
        sorted == sort_index(group)
        final == loop_state(sorted, n)
    IN [i \in 1..n |->
          sorted[i] @@
          [login_count_1h |-> login_count_1h[i],
           failed_login_rate_1h |-> failed_login_rate(fails_1h[i], logins_1h[i]),
           bytes_transferred_1h |-> bytes_1h[i],
           off_hours_ratio_24h |-> off_ratio[i],
           unique_dst_ips_1h |-> final.one_hour_uniques[i],
           dst_ip_entropy_1h |-> final.one_hour_entropy[i],
           unique_files_24h |-> final.twentyfour_uniques[i],
           privilege_change_flag |->
               IF sorted[i].event_type = "privilege_escalation" THEN 1 ELSE 0,
           geo_anomaly_score |-> IF sorted[i].geo_country # "US" THEN 1 ELSE 0]]

RECURSIVE concat_groups(_, _)
\* pd.concat of the groups' rows, the groups taken in key order.
concat_groups(df, keys) ==
    IF keys = {} THEN <<>>
    ELSE LET u == CHOOSE k \in keys : \A o \in keys : UserRank[k] <= UserRank[o]
         IN group_features(group_of(df, u)) \o concat_groups(df, keys \ {u})

\* compute_batch_features(df): one output row per input row.
compute_batch_features(df) ==
    LET sorted == sort_values(df)
    IN concat_groups(sorted, group_keys(sorted))

\* features_df[feature_cols] of one output row.
FeatureVector(row) ==
    [c \in {feature_columns[i] : i \in 1..Len(feature_columns)} |-> row[c]]

\* The output row compute_batch_features gives the input row labelled id.
feature_row(result, id) ==
    result[CHOOSE i \in 1..Len(result) : result[i].row_id = id]

---------------------------------------------------------------------------
(* Scoring helpers of main.py.                                             *)

\* The static table of map_to_mitre.
mitre_mapping ==
    ("apt" :> ( "login_fail" :> <<"TA0001", "T1110">> @@
                "login_success" :> <<"TA0001", "T1078">> @@
                "privilege_escalation" :> <<"TA0004", "T1068">> @@
                "file_access" :> <<"TA0008", "T1021">> @@
                "file_transfer" :> <<"TA0010", "T1041">> )) @@
    ("insider" :> ( "file_access" :> <<"TA0009", "T1005">> @@
                    "file_transfer" :> <<"TA0010", "T1048">> @@
                    "email_send" :> <<"TA0009", "T1114">> ))

\* Mutant of map_to_mitre: an unknown category falls back to the "apt" table.
map_to_mitre_apt_fallback(threat_type, event_type) ==
    LET category == IF threat_type \in DOMAIN mitre_mapping
                    THEN threat_type ELSE "apt"
    IN IF event_type \in DOMAIN mitre_mapping[category]
       THEN mitre_mapping[category][event_type]
       ELSE <<"TA0000", "T0000">>

\* mitre_mapping.get(threat_type, {}).get(event_type, ("TA0000", "T0000"))
map_to_mitre(threat_type, event_type) ==
    IF threat_type \in DOMAIN mitre_mapping
       /\ event_type \in DOMAIN mitre_mapping[threat_type]
    THEN mitre_mapping[threat_type][event_type]
    ELSE <<"TA0000", "T0000">>

\* Mutant of get_threat_level: exclusive lower bounds.
get_threat_level_exclusive(score) ==
    IF score > THRESHOLD_CRITICAL THEN "critical"
    ELSE IF score > THRESHOLD_HIGH THEN "high"
    ELSE IF score > THRESHOLD_MEDIUM THEN "medium"
    ELSE "low"

\* get_threat_level(score), the score and the thresholds in two-hundredths.
get_threat_level(score) ==
    IF score >= THRESHOLD_CRITICAL THEN "critical"
    ELSE IF score >= THRESHOLD_HIGH THEN "high"
    ELSE IF score >= THRESHOLD_MEDIUM THEN "medium"
    ELSE "low"

\* Mutant of ensemble_score: the larger of the two outputs instead of the mean.
ensemble_max(rf_prob, xgb_prob) == 2 * Max({rf_prob, xgb_prob})

\* (rf_prob + xgb_prob) / 2 for probabilities in hundredths, in two-hundredths.
ensemble_score(rf_prob, xgb_prob) == rf_prob + xgb_prob

\* Mutant of is_malicious: the high threshold instead of the medium one.
is_malicious_from_high(threat_score) == threat_score >= THRESHOLD_HIGH

\* is_malicious = threat_score >= THRESHOLD_MEDIUM
is_malicious(threat_score) == threat_score >= THRESHOLD_MEDIUM

\* Mutant of models_loaded: only the first estimator is looked at.
models_loaded_rf_only == rf_model # None

\* all([rf_model, xgb_model, scaler])
models_loaded == rf_model # None /\ xgb_model # None /\ scaler # None

\* Mutant of online_features: the event is scored as the last row of a
\* frame that starts with the ingested events.
online_features_with_ingested(event) ==
    LET rows == [i \in 1..Len(events) |-> event_row(events[i])]
                    \o <<event_row(event)>>
    IN FeatureVector(feature_row(compute_batch_features(DataFrame(rows)),
                                 Len(rows)))

\* The feature vector predict_threat computes: compute_batch_features on a
\* DataFrame that holds the submitted event alone.
online_features(event) ==
    FeatureVector(compute_batch_features(DataFrame(<<event_row(event)>>))[1])

\* The Alert row predict_threat adds (id 0 stands for no incident).
NewAlert(id, event, threat_score, threat_level, mitre) ==
    [id |-> id, timestamp |-> event.timestamp, user_id |-> event.user_id,
     threat_score |-> threat_score, threat_level |-> threat_level,
     mitre_tactic |-> mitre[1], mitre_technique |-> mitre[2],
     description |-> event.event_type, incident_id |-> 0]

\* Mutant of creates_alert: an Alert for every scored event.
creates_alert_always(malicious) == TRUE

\* Whether the handler goes on to write the Alert.
creates_alert(malicious) == malicious

\* One finished /api/predict call: what was submitted, what the estimators
\* returned, the feature vector computed, the HTTP status, the response body
\* and the handler's alert_id (0 for None).  Absent parts are <<>>.
Call(event, outputs, features, status, response, alert_id) ==
    [event |-> event, outputs |-> outputs, features |-> features,
     status |-> status, response |-> response, alert_id |-> alert_id]

---------------------------------------------------------------------------
(* Strings of correlator.py.                                               *)

UpperCase == "ABCDEFGHIJKLMNOPQRSTUVWXYZ"
LowerCase == "abcdefghijklmnopqrstuvwxyz"

\* The character c with its case changed from the alphabet `from` to `to`;
\* characters outside `from` (digits, spaces, "&") are kept.
recase(c, from, to) ==
    IF \E i \in 1..Len(from) : SubSeq(from, i, i) = c
    THEN LET i == CHOOSE j \in 1..Len(from) : SubSeq(from, j, j) = c
         IN SubSeq(to, i, i)
    ELSE c

\* str.lower()
RECURSIVE lower(_)
lower(s) ==
    IF s = "" THEN ""
    ELSE recase(SubSeq(s, 1, 1), UpperCase, LowerCase) \o lower(Tail(s))

\* str.upper()
RECURSIVE upper(_)
upper(s) ==
    IF s = "" THEN ""
    ELSE recase(SubSeq(s, 1, 1), LowerCase, UpperCase) \o upper(Tail(s))

\* Python's `sub in s` on strings.
In(sub, s) ==
    \E i \in 1..(Len(s) - Len(sub) + 1) : SubSeq(s, i, i + Len(sub) - 1) = sub

\* map_attack_stage(mitre_tactic): the first substring test that succeeds
\* on the lower-cased tactic decides.
map_attack_stage(mitre_tactic) ==
    IF ~Truthy(mitre_tactic) THEN "Unknown"
    ELSE LET tactic == lower(mitre_tactic)
         IN IF In("initial access", tactic) THEN "Initial Access"
            ELSE IF In("execution", tactic) THEN "Execution"
            ELSE IF In("persistence", tactic) THEN "Persistence"
            ELSE IF In("privilege escalation", tactic) THEN "Privilege Escalation"
            ELSE IF In("defense evasion", tactic) THEN "Defense Evasion"
            ELSE IF In("credential access", tactic) THEN "Credential Access"
            ELSE IF In("discovery", tactic) THEN "Discovery"
            ELSE IF In("lateral movement", tactic) THEN "Lateral Movement"
            ELSE IF In("collection", tactic) THEN "Collection"
            ELSE IF In("exfiltration", tactic) THEN "Exfiltration"
            ELSE IF In("command and control", tactic) \/ In("c2", tactic)
                 THEN "Command & Control"
            ELSE "Other"

\* Mutant of commit_failure: the exception is swallowed and the verdict is
\* returned as a success.
commit_failure_swallowed(response) ==
    [status |-> 200, response |-> <<response>>]

\* What the caller of predict_threat gets when db.add/db.commit raises: the
\* handler has no try/except, the exception leaves it before the return
\* statement and the framework answers 500 with no PredictionResponse.
commit_failure(response) ==
    [status |-> 500, response |-> <<>>]

---------------------------------------------------------------------------
(* Operations.                                                             *)

\* load_ml_models(): the three artifacts are loaded in order; a failure at
\* any of them raises and leaves the ones loaded before it assigned.
load_ml_models ==
    /\ \E n \in 0..3 :
        /\ rf_model' = IF n >= 1 THEN "loaded" ELSE rf_model
        /\ xgb_model' = IF n >= 2 THEN "loaded" ELSE xgb_model
        /\ scaler' = IF n >= 3 THEN "loaded" ELSE scaler
    /\ UNCHANGED <<THRESHOLD_CRITICAL, THRESHOLD_HIGH, THRESHOLD_MEDIUM,
                   events, alerts, history>>
    /\ UNCHANGED correlator_vars

\* POST /api/predict.  rf_prob and xgb_prob are what the two estimators
\* return for the scaled feature vector; commit_ok is whether db.commit()
\* succeeds.
predict_threat(event, rf_prob, xgb_prob, commit_ok) ==
    /\ UNCHANGED <<rf_model, xgb_model, scaler, THRESHOLD_CRITICAL,
                   THRESHOLD_HIGH, THRESHOLD_MEDIUM, events>>
    /\ UNCHANGED correlator_vars
    /\ IF ~models_loaded
       THEN \* HTTPException(status_code=500, "ML models not loaded")
            /\ history' = Append(history, Call(event, <<>>, <<>>, 500, <<>>, 0))
            /\ UNCHANGED alerts
       ELSE LET features == online_features(event)
                threat_score == ensemble_score(rf_prob, xgb_prob)
                threat_level == get_threat_level(threat_score)
                malicious == is_malicious(threat_score)
                mitre == map_to_mitre("apt", event.event_type)
                response == [threat_score |-> threat_score,
                             threat_level |-> threat_level,
                             is_malicious |-> malicious,
                             mitre_tactic |-> mitre[1],
                             mitre_technique |-> mitre[2]]
                alert_id == Len(alerts) + 1
            IN IF creates_alert(malicious)
               THEN IF commit_ok
                    THEN /\ alerts' = Append(alerts,
                                NewAlert(alert_id, event, threat_score,
                                         threat_level, mitre))
                         /\ history' = Append(history,
                                Call(event, <<rf_prob, xgb_prob>>, <<features>>,
                                     200, <<response>>, alert_id))
                    ELSE \* db.commit() raises: nothing is stored
                         /\ UNCHANGED alerts
                         /\ history' = Append(history,
                                Call(event, <<rf_prob, xgb_prob>>, <<features>>,
                                     commit_failure(response).status,
                                     commit_failure(response).response, 0))
               ELSE /\ UNCHANGED alerts
                    /\ history' = Append(history,
                           Call(event, <<rf_prob, xgb_prob>>, <<features>>,
                                200, <<response>>, 0))

\* POST /api/events/ingest: the event is stored as a row of the events
\* table; nothing else is touched.
ingest_event(event) ==
    /\ events' = Append(events, [id |-> Len(events) + 1] @@ event)
    /\ UNCHANGED <<rf_model, xgb_model, scaler, THRESHOLD_CRITICAL,
                   THRESHOLD_HIGH, THRESHOLD_MEDIUM, alerts, history>>
    /\ UNCHANGED correlator_vars

---------------------------------------------------------------------------
(* services/correlator.py: pure parts.                                     *)

\* THREAT_SEVERITY_ORDER
THREAT_SEVERITY_ORDER ==
    [critical |-> 4, high |-> 3, medium |-> 2, low |-> 1]

\* THREAT_SEVERITY_ORDER.get(level, 0)
severity_rank(level) ==
    IF level \in DOMAIN THREAT_SEVERITY_ORDER
    THEN THREAT_SEVERITY_ORDER[level] ELSE 0

\* Mutant of max_severity: the level of the last alert of the list.
RECURSIVE last_severity(_, _)
last_severity(alerts_sorted, level) ==
    IF alerts_sorted = <<>> THEN level
    ELSE last_severity(Tail(alerts_sorted), Head(alerts_sorted).threat_level)

\* The loop "Determine highest severity", entered with max_severity = level.
RECURSIVE max_severity(_, _)
max_severity(alerts_sorted, level) ==
    IF alerts_sorted = <<>> THEN level
    ELSE LET a == Head(alerts_sorted)
         IN max_severity(Tail(alerts_sorted),
                IF Truthy(a.threat_level)
                   /\ severity_rank(a.threat_level) > severity_rank(level)
                THEN a.threat_level ELSE level)

\* The calendar date of day 0 of the model's timestamps: <<year, month, day>>.
DayZero == <<2025, 1, 1>>

Digits == "0123456789"

\* Mutant of zero_pad: the number without leading zeros (for n < 100).
RECURSIVE no_pad(_, _)
no_pad(n, width) ==
    IF n < 10 THEN SubSeq(Digits, n + 1, n + 1)
    ELSE no_pad(n \div 10, width) \o SubSeq(Digits, (n % 10) + 1, (n % 10) + 1)

\* A number in `width` decimal digits with leading zeros (%Y, %m, %d, %H,
\* %M and %S all pad with zeros).
RECURSIVE zero_pad(_, _)
zero_pad(n, width) ==
    IF width = 0 THEN ""
    ELSE zero_pad(n \div 10, width - 1)
            \o SubSeq(Digits, (n % 10) + 1, (n % 10) + 1)

\* The fields of a timestamp; the model's timestamps are whole minutes.
year_of(ts) == DayZero[1]
month_of(ts) == DayZero[2]
day_of(ts) == DayZero[3] + (ts \div Day)
hour_of(ts) == (ts % Day) \div Hour
minute_of(ts) == ts % Hour
second_of(ts) == 0

\* ts.strftime("%Y%m%d%H%M%S")
strftime(ts) ==
    zero_pad(year_of(ts), 4) \o zero_pad(month_of(ts), 2)
        \o zero_pad(day_of(ts), 2) \o zero_pad(hour_of(ts), 2)
        \o zero_pad(minute_of(ts), 2) \o zero_pad(second_of(ts), 2)

\* ts.strftime("%H:%M:%S")
strftime_clock(ts) ==
    zero_pad(hour_of(ts), 2) \o ":" \o zero_pad(minute_of(ts), 2)
        \o ":" \o zero_pad(second_of(ts), 2)

\* ts.strftime("%Y-%m-%d %H:%M:%S")
strftime_datetime(ts) ==
    zero_pad(year_of(ts), 4) \o "-" \o zero_pad(month_of(ts), 2) \o "-"
        \o zero_pad(day_of(ts), 2) \o " " \o strftime_clock(ts)

\* ts.isoformat()
isoformat(ts) ==
    zero_pad(year_of(ts), 4) \o "-" \o zero_pad(month_of(ts), 2) \o "-"
        \o zero_pad(day_of(ts), 2) \o "T" \o strftime_clock(ts)

\* A timestamp that is None (the model's timestamps are integers).
NoTimestamp == -1

\* `x or datetime.utcnow()`
or_utcnow(x, clock) == IF x # NoTimestamp THEN x ELSE clock

\* sorted(alerts, key=lambda a: a.timestamp or datetime.utcnow()): stable.
sorted_alerts(alert_list, clock) ==
    StableSort(alert_list,
        [i \in 1..Len(alert_list) |->
            <<or_utcnow(alert_list[i].timestamp, clock), 0>>])

\* The attack chain built from the sorted alerts.
attack_chain_of(alerts_sorted, clock) ==
    [i \in 1..Len(alerts_sorted) |->
        [stage |-> map_attack_stage(alerts_sorted[i].mitre_tactic),
         tactic |-> alerts_sorted[i].mitre_tactic,
         technique |-> alerts_sorted[i].mitre_technique,
         timestamp |-> isoformat(or_utcnow(alerts_sorted[i].timestamp, clock))]]

\* generate_narrative(alerts): the entity, the start, the number of alerts
\* and one step per alert (the parts the text is formatted from; the score
\* of a step is kept as the number the line prints).
generate_narrative(alert_list) ==
    IF alert_list = <<>> THEN [text |-> "No alerts to generate narrative."]
    ELSE [user_id |-> alert_list[1].user_id,
          start |-> IF alert_list[1].timestamp # NoTimestamp
                    THEN strftime_datetime(alert_list[1].timestamp)
                    ELSE "unknown time",
          count |-> Len(alert_list),
          steps |-> [i \in 1..Len(alert_list) |->
            [ts |-> IF alert_list[i].timestamp # NoTimestamp
                    THEN strftime_clock(alert_list[i].timestamp)
                    ELSE "unknown time",
             stage |-> map_attack_stage(alert_list[i].mitre_tactic),
             tactic |-> IF Truthy(alert_list[i].mitre_tactic)
                        THEN alert_list[i].mitre_tactic ELSE "Unknown Tactic",
             technique |-> IF Truthy(alert_list[i].mitre_technique)
                           THEN alert_list[i].mitre_technique
                           ELSE "Unknown Technique",
             score |-> alert_list[i].threat_score]]]

\* f"INC-{ts_part}-{user_id}"
incident_number_of(start_time, user_id, clock) ==
    "INC-" \o strftime(or_utcnow(start_time, clock)) \o "-" \o user_id

\* The Incident object create_incident builds from a non-empty list; id is
\* the primary key the flush assigns, committed whether the row is visible
\* to other sessions.
NewIncident(id, alert_list, clock) ==
    LET alerts_sorted == sorted_alerts(alert_list, clock)
        user_id == alerts_sorted[1].user_id
        start_time == alerts_sorted[1].timestamp
        end_time == alerts_sorted[Len(alerts_sorted)].timestamp
    IN [id |-> id,
        incident_number |-> incident_number_of(start_time, user_id, clock),
        user_id |-> user_id,
        start_time |-> or_utcnow(start_time, clock),
        end_time |-> end_time,
        severity |-> max_severity(alerts_sorted, "low"),
        status |-> "open",
        attack_chain |-> attack_chain_of(alerts_sorted, clock),
        narrative |-> generate_narrative(alerts_sorted),
        committed |-> FALSE]

---------------------------------------------------------------------------
(* services/correlator.py: the two operations, step by step.               *)

\* The workers that may be inside a correlator call at the same time.
Workers == {1, 2}

\* A worker that is in no call.
Idle == [pc |-> "idle"]

\* Every order of the elements of a finite set.
Orderings(S) ==
    {f \in [1..Cardinality(S) -> S] :
        \A i, j \in 1..Cardinality(S) : i < j => f[i] # f[j]}

\* The elements of a sequence.
Range(seq) == {seq[i] : i \in 1..Len(seq)}

\* The Alert objects with the given ids, in that order, as the table has
\* them (only incident_id of an Alert ever changes).
loaded(ids) == [i \in 1..Len(ids) |-> alerts[ids[i]]]

\* Alert.timestamp >= window_start and Alert.timestamp <= window_end
in_window(timestamp, window_start, window_end) ==
    timestamp >= window_start /\ timestamp <= window_end

\* The lists the query of correlate_alerts may return, as alert ids: the
\* matching rows ORDER BY timestamp ASC, rows of equal timestamp in any order.
query_alerts(user_id, window_start, window_end) ==
    LET ids == {i \in 1..Len(alerts) :
                    /\ alerts[i].user_id = user_id
                    /\ in_window(alerts[i].timestamp, window_start, window_end)}
    IN {l \in Orderings(ids) :
            \A i \in 1..(Len(l) - 1) :
                alerts[l[i]].timestamp <= alerts[l[i + 1]].timestamp}

\* A worker inside create_incident: pc is where it stands ("create_incident"
\* before line 85, "link" after the flush of line 135), op the operation
\* the caller invoked, alerts the list handed to create_incident (as ids),
\* began the number of correlator calls that had finished when it began.
InCall(pc, op, user_id, window_start, window_end, ids, incident_id) ==
    [pc |-> pc, op |-> op, user_id |-> user_id,
     window_start |-> window_start, window_end |-> window_end,
     alerts |-> ids, incident_id |-> incident_id, began |-> Len(results)]

\* A finished correlator call: outcome is "None", "Incident" or the name of
\* the exception raised; incident_id is the id of the returned Incident.
Result(call, outcome, incident_id) ==
    [op |-> call.op, user_id |-> call.user_id,
     window_start |-> call.window_start, window_end |-> call.window_end,
     alerts |-> call.alerts, outcome |-> outcome, incident_id |-> incident_id,
     began |-> call.began]

\* Mutant of no_alerts: the early return is never taken.
no_alerts_never(ids) == FALSE

\* `if not alerts` of correlate_alerts.
no_alerts(ids) == ids = <<>>

\* correlate_alerts, lines 51-70: read the clock, run the query, return None
\* or call create_incident with what the query returned.
correlate_alerts(w, user_id, time_window_minutes) ==
    /\ sessions[w] = Idle
    /\ LET window_end == utcnow
           window_start == window_end - time_window_minutes
       IN \E ids \in query_alerts(user_id, window_start, window_end) :
            LET call == InCall("create_incident", "correlate_alerts", user_id,
                               window_start, window_end, ids, 0)
            IN IF no_alerts(ids)
               THEN /\ results' = Append(results, Result(call, "None", 0))
                    /\ UNCHANGED sessions
               ELSE /\ sessions' = [sessions EXCEPT ![w] = call]
                    /\ UNCHANGED results
    /\ UNCHANGED <<rf_model, xgb_model, scaler, THRESHOLD_CRITICAL,
                   THRESHOLD_HIGH, THRESHOLD_MEDIUM, events, alerts, history,
                   incidents, utcnow, returned>>

\* create_incident called by a caller of its own with a list of Alerts.
call_create_incident(w, ids) ==
    /\ sessions[w] = Idle
    /\ sessions' = [sessions EXCEPT ![w] =
            InCall("create_incident", "create_incident", None, 0, 0, ids, 0)]
    /\ UNCHANGED <<rf_model, xgb_model, scaler, THRESHOLD_CRITICAL,
                   THRESHOLD_HIGH, THRESHOLD_MEDIUM, events, alerts, history,
                   incidents, utcnow, results, returned>>

\* create_incident, lines 85-135: reject an empty list, build the Incident,
\* add and flush it.  The INSERT waits while another session holds an
\* uncommitted row with the same incident_number, and raises IntegrityError
\* when a committed row has it (unique=True).
create_incident(w) ==
    /\ sessions[w].pc = "create_incident"
    /\ LET call == sessions[w]
       IN IF call.alerts = <<>>
          THEN /\ results' = Append(results, Result(call, "ValueError", 0))
               /\ sessions' = [sessions EXCEPT ![w] = Idle]
               /\ UNCHANGED incidents
          ELSE LET incident == NewIncident(Len(incidents) + 1,
                                           loaded(call.alerts), utcnow)
                   same == {i \in 1..Len(incidents) :
                        incidents[i].incident_number = incident.incident_number}
               IN /\ \A i \in same : incidents[i].committed
                  /\ IF same # {}
                     THEN /\ results' = Append(results,
                                Result(call, "IntegrityError", 0))
                          /\ sessions' = [sessions EXCEPT ![w] = Idle]
                          /\ UNCHANGED incidents
                     ELSE /\ incidents' = Append(incidents, incident)
                          /\ sessions' = [sessions EXCEPT ![w] =
                                [call EXCEPT !.pc = "link",
                                             !.incident_id = incident.id]]
                          /\ UNCHANGED results
    /\ UNCHANGED <<rf_model, xgb_model, scaler, THRESHOLD_CRITICAL,
                   THRESHOLD_HIGH, THRESHOLD_MEDIUM, events, alerts, history,
                   utcnow, returned>>

\* Mutant of link_alerts: every alert of the table is linked, not only
\* those of the list.
link_every_alert(w) ==
    /\ sessions[w].pc = "link"
    /\ LET call == sessions[w]
       IN /\ alerts' = [i \in 1..Len(alerts) |->
                [alerts[i] EXCEPT !.incident_id = call.incident_id]]
          /\ incidents' = [incidents EXCEPT
                ![call.incident_id].committed = TRUE]
          /\ results' = Append(results,
                Result(call, "Incident", call.incident_id))
          /\ sessions' = [sessions EXCEPT ![w] = Idle]
    /\ UNCHANGED <<rf_model, xgb_model, scaler, THRESHOLD_CRITICAL,
                   THRESHOLD_HIGH, THRESHOLD_MEDIUM, events, history, utcnow,
                   returned>>

\* create_incident, lines 138-144: set incident_id of every alert of the
\* list, commit (the Incident and the links become visible together),
\* refresh and return the Incident.
link_alerts(w) ==
    /\ sessions[w].pc = "link"
    /\ LET call == sessions[w]
       IN /\ alerts' = [i \in 1..Len(alerts) |->
                IF i \in Range(call.alerts)
                THEN [alerts[i] EXCEPT !.incident_id = call.incident_id]
                ELSE alerts[i]]
          /\ incidents' = [incidents EXCEPT
                ![call.incident_id].committed = TRUE]
          /\ results' = Append(results,
                Result(call, "Incident", call.incident_id))
          /\ sessions' = [sessions EXCEPT ![w] = Idle]
    /\ UNCHANGED <<rf_model, xgb_model, scaler, THRESHOLD_CRITICAL,
                   THRESHOLD_HIGH, THRESHOLD_MEDIUM, events, history, utcnow,
                   returned>>

---------------------------------------------------------------------------
(* Inputs.                                                                 *)

\* Timestamps: 17:00, 17:30 and 18:00 of day 0, and 17:30 of day 1.
Times == {1020, 1050, 1080, 2490}

\* What an event carries besides its time and entity:
\* <<event_type, dst_ip, file_name, bytes_transferred, geo_country>>.
EventKinds ==
    { <<"login_success", "", None, 0, "US">>,
      <<"login_fail", "", None, 0, "CN">>,
      <<"file_transfer", "198.51.100.55", "payload.bin", 5, "US">>,
      <<"file_access", "203.0.113.200", "system.config", 1, None>> }

EventOf(ts, user, k) == Event(ts, user, k[1], k[2], k[3], k[4], k[5])

\* The events of the feature runs: every kind at every time for user007, a
\* privilege escalation of user007, and two events of user042.
FeatureEvents ==
    {EventOf(ts, "user007", k) : ts \in Times, k \in EventKinds}
    \cup {Event(1050, "user007", "privilege_escalation", None, None, 0, "US"),
          Event(1050, "user042", "file_transfer", "198.51.100.55", "payload.bin", 5, "US"),
          Event(1080, "user042", "login_success", "", None, 0, "US")}

\* The events of the scoring runs.
ScoreEvents ==
    {Event(1020, "user007", "login_fail", "", None, 0, "CN"),
     Event(1080, "user042", "file_transfer", "198.51.100.55", "payload.bin", 5, "US")}

\* The events of the batch runs: for user007 two transfers of one file to one
\* address half an hour apart, an access exactly one hour after the first, a
\* failed login 80 minutes after the first, and a login 24.5 hours after it;
\* for user042 a transfer and a login.
BatchEvents ==
    {EventOf(StartClock - Hour, "user007", <<"file_transfer", "198.51.100.55", "payload.bin", 5, "US">>),
     EventOf(StartClock - TickStep, "user007", <<"file_transfer", "198.51.100.55", "payload.bin", 5, "US">>),
     EventOf(StartClock, "user007", <<"file_access", "203.0.113.200", "system.config", 1, None>>),
     EventOf(StartClock + TickStep - 10, "user007", <<"login_fail", "", None, 0, "CN">>),
     EventOf(StartClock + Day - TickStep, "user007", <<"login_success", "", None, 0, "US">>),
     EventOf(StartClock - TickStep, "user042", <<"file_transfer", "198.51.100.55", "payload.bin", 5, "US">>),
     EventOf(StartClock, "user042", <<"login_success", "", None, 0, "US">>)}

\* The events of the online runs: a login and a failed login of user007, a
\* transfer of user042; and what both estimators return for them.
OnlineEvents ==
    {EventOf(StartClock - Hour, "user007", <<"login_success", "", None, 0, "US">>),
     EventOf(StartClock - TickStep, "user007", <<"login_fail", "", None, 0, "CN">>),
     EventOf(StartClock - TickStep, "user042",
             <<"file_transfer", "198.51.100.55", "payload.bin", 5, "US">>)}
OnlineProbs == {30, 85}

\* Threat categories: the two of the table, one that is not in it, and none.
ThreatTypes == {"apt", "insider", "ransomware", None}

\* Event types: in both tables, in one of them, in neither.
EventTypes ==
    {"login_fail", "file_access", "file_transfer", "email_send", "logout"}

\* The kill-chain stages map_attack_stage can name.
StageNames ==
    {"Initial Access", "Execution", "Persistence", "Privilege Escalation",
     "Defense Evasion", "Credential Access", "Discovery", "Lateral Movement",
     "Collection", "Exfiltration", "Command & Control"}

\* Tactics handed to map_attack_stage: every stage name as written, in lower
\* and in upper case, the spelled-out and abbreviated command-and-control
\* tactic, a tactic id as predict_threat stores it, the empty string, None.
TacticInputs ==
    StageNames \cup {lower(n) : n \in StageNames}
               \cup {upper(n) : n \in StageNames}
               \cup {"Command and Control", "C2 Channel", "TA0010", "", None}

\* Tactics that name several stages, in and against the order of the tests,
\* next to each stage name alone, tactics that name no stage, "" and None.
StageInputs ==
    StageNames \cup
    {"Execution, Privilege Escalation",
     "Privilege Escalation via Execution",
     "Collection and Exfiltration",
     "Exfiltration over Command & Control",
     "Discovery; Lateral Movement; Initial Access",
     "Credential Access / Defense Evasion / Persistence",
     "Reconnaissance", "TA0010", "", None}

\* What raises the alerts of the correlation runs, as <<event, prob>> with
\* prob what both estimators return in hundredths (with the default
\* thresholds 50 is a medium, 70 a high and 85 a critical verdict): two
\* events of user007 before the start of the clock (45 and 30 minutes), one
\* of user007 after it, one of user042.
CorrelateInputs ==
    {<<Event(StartClock - Hour + Quarter, "user007", "login_fail", "", None, 0, "CN"), 50>>,
     <<Event(StartClock - TickStep, "user007", "file_transfer",
             "198.51.100.55", "payload.bin", 5, "US"), 70>>,
     <<Event(StartClock + TickStep, "user007", "file_access",
             "203.0.113.200", "system.config", 1, None), 85>>,
     <<Event(StartClock - TickStep, "user042", "file_transfer",
             "198.51.100.55", "payload.bin", 5, "US"), 85>>}

\* What raises the alerts of the direct runs: two verdicts on events of
\* user007 at the same time, a later event of user007, and an event of
\* user042 at that later time.
IncidentInputs ==
    {<<Event(StartClock - Hour, "user007", "login_fail", "", None, 0, "CN"), 50>>,
     <<Event(StartClock - Hour, "user007", "login_fail", "", None, 0, "CN"), 85>>,
     <<Event(StartClock - TickStep, "user007", "file_transfer",
             "198.51.100.55", "payload.bin", 5, "US"), 70>>,
     <<Event(StartClock - TickStep, "user042", "file_transfer",
             "198.51.100.55", "payload.bin", 5, "US"), 85>>}

\* The readings of the clock: the start and half an hour later.
ClockValues == {StartClock, StartClock + TickStep}

\* time_window_minutes of the correlate_alerts calls (the default).
CorrelationWindows == {Hour}

\* Estimator outputs in hundredths; 150 is not a probability.
Probs == {30, 70, 85, 150}

\* <<critical, high, medium>> in two-hundredths: the defaults, critical equal
\* to high, and an environment that sets them in the opposite order.
ThresholdConfigs ==
    { <<DEFAULT_CRITICAL, DEFAULT_HIGH, DEFAULT_MEDIUM>>,
      <<DEFAULT_HIGH, DEFAULT_HIGH, DEFAULT_MEDIUM>>,
      <<DEFAULT_MEDIUM, DEFAULT_HIGH, DEFAULT_CRITICAL>> }

\* Alert objects a caller of the correlator can hold: one as predict_threat
\* stores it, one with a tactic name, and one each without tactic, without
\* technique and without timestamp (attributes never set are None).
NarrativeAlerts ==
    LET stored == NewAlert(1,
            Event(StartClock - TickStep, "user042", "file_transfer",
                  "198.51.100.55", "payload.bin", 5, "US"),
            170, "critical", map_to_mitre("apt", "file_transfer"))
    IN { stored,
         [stored EXCEPT !.id = 2, !.mitre_tactic = "Lateral Movement",
                        !.timestamp = StartClock - Hour],
         [stored EXCEPT !.id = 3, !.mitre_tactic = None],
         [stored EXCEPT !.id = 4, !.mitre_technique = None],
         [stored EXCEPT !.id = 5, !.timestamp = NoTimestamp] }

\* The lists handed to the narrative and attack-chain code: the empty list
\* and one or two of the alerts in either order.
NarrativeLists ==
    UNION {Orderings(S) : S \in {T \in SUBSET NarrativeAlerts : Cardinality(T) <= 2}}

---------------------------------------------------------------------------
(* Specifications.                                                         *)

\* No incident yet, no correlator call running or finished, no lookup made.
correlator_idle ==
    /\ incidents = <<>>
    /\ utcnow = StartClock
    /\ sessions = [w \in Workers |-> Idle]
    /\ results = <<>>
    /\ returned = <<>>

\* The state after import: no model loaded, thresholds from the environment.
Init ==
    /\ rf_model = None
    /\ xgb_model = None
    /\ scaler = None
    /\ \E t \in ThresholdConfigs :
        /\ THRESHOLD_CRITICAL = t[1]
        /\ THRESHOLD_HIGH = t[2]
        /\ THRESHOLD_MEDIUM = t[3]
    /\ events = <<>>
    /\ alerts = <<>>
    /\ history = <<>>
    /\ correlator_idle

Predict ==
    /\ Len(history) < MaxCalls
    /\ \E event \in ScoreEvents, rf_prob \in Probs, xgb_prob \in Probs,
          commit_ok \in BOOLEAN :
        predict_threat(event, rf_prob, xgb_prob, commit_ok)

Next == load_ml_models \/ Predict

Spec == Init /\ [][Next]_vars

\* One finished lookup: the function called, its arguments, what it returned.
Lookup(fn, args, value) == [fn |-> fn, args |-> args, value |-> value]

\* A call of map_to_mitre.
MapToMitre ==
    /\ Len(returned) < MaxLookups
    /\ \E threat_type \in ThreatTypes, event_type \in EventTypes :
        returned' = Append(returned,
            Lookup("map_to_mitre", <<threat_type, event_type>>,
                   map_to_mitre(threat_type, event_type)))
    /\ UNCHANGED <<rf_model, xgb_model, scaler, THRESHOLD_CRITICAL,
                   THRESHOLD_HIGH, THRESHOLD_MEDIUM, events, alerts, history,
                   incidents, utcnow, sessions, results>>

\* A call of map_attack_stage.
MapAttackStage ==
    /\ Len(returned) < MaxLookups
    /\ \E mitre_tactic \in TacticInputs :
        returned' = Append(returned,
            Lookup("map_attack_stage", <<mitre_tactic>>,
                   map_attack_stage(mitre_tactic)))
    /\ UNCHANGED <<rf_model, xgb_model, scaler, THRESHOLD_CRITICAL,
                   THRESHOLD_HIGH, THRESHOLD_MEDIUM, events, alerts, history,
                   incidents, utcnow, sessions, results>>

NextLookup == MapToMitre \/ MapAttackStage

\* The lookup runs: the two table functions called on their own.
SpecLookup == Init /\ [][NextLookup]_vars

\* The correlator calls started so far.
Started ==
    Len(results) + Cardinality({w \in Workers : sessions[w] # Idle})

\* A malicious event is scored and its Alert stored.
RaiseAlert ==
    /\ Len(history) < MaxCalls
    /\ \E input \in CorrelateInputs :
        predict_threat(input[1], input[2], input[2], TRUE)

\* The same before the first correlator call of a direct run.
RaiseAlertFirst ==
    /\ Len(history) < MaxCalls
    /\ Started = 0
    /\ \E input \in IncidentInputs :
        predict_threat(input[1], input[2], input[2], TRUE)

\* Time passes.
Tick ==
    /\ \E clock \in ClockValues :
        /\ clock > utcnow
        /\ utcnow' = clock
    /\ UNCHANGED <<rf_model, xgb_model, scaler, THRESHOLD_CRITICAL,
                   THRESHOLD_HIGH, THRESHOLD_MEDIUM, events, alerts, history,
                   incidents, sessions, results, returned>>

\* The workers in no call; a new call goes to the first of them.
FreeWorkers == {w \in Workers : sessions[w] = Idle}

\* A worker calls correlate_alerts for an entity.
Correlate ==
    /\ Started < MaxCorrelations
    /\ FreeWorkers # {}
    /\ \E user_id \in Users, time_window_minutes \in CorrelationWindows :
        correlate_alerts(Min(FreeWorkers), user_id, time_window_minutes)

\* A caller hands create_incident a list of stored alerts of its own choice,
\* in an order of its own choice.
CallCreateIncident ==
    /\ Started < MaxDirectCalls
    /\ FreeWorkers = Workers
    /\ \E S \in SUBSET (1..Len(alerts)) :
        \E ids \in Orderings(S) : call_create_incident(Min(FreeWorkers), ids)

\* correlate_alerts called in the runs of the direct calls.
CorrelateDirect ==
    /\ Started < MaxDirectCalls
    /\ FreeWorkers = Workers
    /\ \E user_id \in Users, time_window_minutes \in CorrelationWindows :
        correlate_alerts(Min(FreeWorkers), user_id, time_window_minutes)

\* A worker inside create_incident takes its next step.
CreateIncident ==
    /\ FreeWorkers # Workers
    /\ \E w \in Workers : create_incident(w)

LinkAlerts ==
    /\ FreeWorkers # Workers
    /\ \E w \in Workers : link_alerts(w)

NextCorrelate ==
    \/ RaiseAlert
    \/ Tick
    \/ Correlate
    \/ CreateIncident
    \/ LinkAlerts

NextIncident ==
    \/ RaiseAlertFirst
    \/ CallCreateIncident
    \/ CorrelateDirect
    \/ CreateIncident
    \/ LinkAlerts

\* The feature runs: the service after a successful startup with the default
\* thresholds, fed an event log one event per call.
InitFeatures ==
    /\ rf_model = "loaded"
    /\ xgb_model = "loaded"
    /\ scaler = "loaded"
    /\ THRESHOLD_CRITICAL = DEFAULT_CRITICAL
    /\ THRESHOLD_HIGH = DEFAULT_HIGH
    /\ THRESHOLD_MEDIUM = DEFAULT_MEDIUM
    /\ events = <<>>
    /\ alerts = <<>>
    /\ history = <<>>
    /\ correlator_idle

PredictLog ==
    /\ Len(history) < MaxEvents
    /\ \E event \in FeatureEvents : predict_threat(event, 30, 30, TRUE)

NextFeatures == PredictLog

SpecFeatures == InitFeatures /\ [][NextFeatures]_vars

\* One more event of the batch log is submitted.
SubmitEvent ==
    /\ Len(history) < MaxEvents
    /\ \E event \in BatchEvents : predict_threat(event, 30, 30, TRUE)

NextBatch == SubmitEvent

\* The batch runs: a log of few events in any order, on which several batch
\* computations are compared with each other.
SpecBatch == InitFeatures /\ [][NextBatch]_vars

\* An event is ingested.
IngestEvent ==
    /\ Len(events) < MaxEvents
    /\ \E event \in OnlineEvents : ingest_event(event)

\* An event is scored.
PredictOnline ==
    /\ Len(history) < MaxCalls
    /\ \E event \in OnlineEvents, prob \in OnlineProbs :
        predict_threat(event, prob, prob, TRUE)

NextOnline == IngestEvent \/ PredictOnline

\* The online runs: events are ingested and scored in any interleaving.
SpecOnline == InitFeatures /\ [][NextOnline]_vars

\* The service after a successful startup with thresholds as the environment
\* sets them.
InitLevels ==
    /\ rf_model = "loaded"
    /\ xgb_model = "loaded"
    /\ scaler = "loaded"
    /\ \E t \in ThresholdConfigs :
        /\ THRESHOLD_CRITICAL = t[1]
        /\ THRESHOLD_HIGH = t[2]
        /\ THRESHOLD_MEDIUM = t[3]
    /\ events = <<>>
    /\ alerts = <<>>
    /\ history = <<>>
    /\ correlator_idle

\* An event is scored and its Alert, if any, is stored.
ScoreEvent ==
    /\ Len(history) < MaxCalls
    /\ \E event \in ScoreEvents, rf_prob \in Probs, xgb_prob \in Probs :
        predict_threat(event, rf_prob, xgb_prob, TRUE)

NextLevels == ScoreEvent

\* The level runs: scoring under every threshold configuration.
SpecLevels == InitLevels /\ [][NextLevels]_vars

\* The correlation runs: the service after a successful startup, alerts
\* raised by scoring, and workers calling the correlator as the clock runs.
SpecCorrelate == InitFeatures /\ [][NextCorrelate]_vars

\* A call of map_attack_stage with a tactic of the stage runs.
ClassifyTactic ==
    /\ Len(returned) < MaxLookups
    /\ \E mitre_tactic \in StageInputs :
        returned' = Append(returned,
            Lookup("map_attack_stage", <<mitre_tactic>>,
                   map_attack_stage(mitre_tactic)))
    /\ UNCHANGED <<rf_model, xgb_model, scaler, THRESHOLD_CRITICAL,
                   THRESHOLD_HIGH, THRESHOLD_MEDIUM, events, alerts, history,
                   incidents, utcnow, sessions, results>>

NextStage == ClassifyTactic

\* The stage runs: map_attack_stage called on its own.
SpecStage == InitFeatures /\ [][NextStage]_vars

\* A call of generate_narrative.
GenerateNarrative ==
    /\ Len(returned) < MaxLookups
    /\ \E alert_list \in NarrativeLists :
        returned' = Append(returned,
            Lookup("generate_narrative", <<alert_list>>,
                   generate_narrative(alert_list)))
    /\ UNCHANGED <<rf_model, xgb_model, scaler, THRESHOLD_CRITICAL,
                   THRESHOLD_HIGH, THRESHOLD_MEDIUM, events, alerts, history,
                   incidents, utcnow, sessions, results>>

\* The sort and the attack-chain loop of create_incident on a list.
BuildAttackChain ==
    /\ Len(returned) < MaxLookups
    /\ \E alert_list \in NarrativeLists :
        returned' = Append(returned,
            Lookup("attack_chain", <<alert_list>>,
                   attack_chain_of(sorted_alerts(alert_list, utcnow), utcnow)))
    /\ UNCHANGED <<rf_model, xgb_model, scaler, THRESHOLD_CRITICAL,
                   THRESHOLD_HIGH, THRESHOLD_MEDIUM, events, alerts, history,
                   incidents, utcnow, sessions, results>>

NextNarrative == GenerateNarrative \/ BuildAttackChain

\* The narrative runs: the two description builders called on their own.
SpecNarrative == InitFeatures /\ [][NextNarrative]_vars

\* A worker calls correlate_alerts while no other call is running.
CorrelateAlone ==
    /\ Started < MaxCorrelations
    /\ FreeWorkers = Workers
    /\ \E user_id \in Users, time_window_minutes \in CorrelationWindows :
        correlate_alerts(Min(FreeWorkers), user_id, time_window_minutes)

NextSequential ==
    \/ RaiseAlert
    \/ Tick
    \/ CorrelateAlone
    \/ CreateIncident
    \/ LinkAlerts

\* The sequential runs: alerts are raised and the clock runs as in the
\* correlation runs, and correlate_alerts is called one call at a time.
SpecSequential == InitFeatures /\ [][NextSequential]_vars

\* The direct runs: alerts are raised, then callers hand create_incident
\* lists of their own or call correlate_alerts, one call after the other,
\* with the clock standing still.
SpecIncident == InitFeatures /\ [][NextIncident]_vars

---------------------------------------------------------------------------
(* The submitted log and its batch features.                               *)

\* The events submitted so far, in submission order.
Log == [k \in 1..Len(history) |-> history[k].event]

\* Each entity's events were submitted in non-decreasing timestamp order.
Chronological ==
    \A i, j \in 1..Len(Log) :
        (i < j /\ Log[i].user_id = Log[j].user_id)
            => Log[i].timestamp <= Log[j].timestamp

\* compute_batch_features on the whole log, and its row for the k-th event.
BatchResult ==
    compute_batch_features(DataFrame([k \in 1..Len(Log) |-> event_row(Log[k])]))
BatchRow(k) == feature_row(BatchResult, k)

\* The k-th event's entity's events up to and including the k-th that are
\* less than `span` minutes older than it (closed = FALSE), or at most `span`
\* minutes older (closed = TRUE).
Trailing(k, span, closed) ==
    {j \in 1..k :
        /\ Log[j].user_id = Log[k].user_id
        /\ IF closed THEN Log[j].timestamp >= Log[k].timestamp - span
                     ELSE Log[j].timestamp > Log[k].timestamp - span}

\* The k-th event's entity's events, wherever they stand in the log, with a
\* timestamp in (E.ts - span, E.ts].
InTimeWindow(k, span) ==
    {j \in 1..Len(Log) :
        /\ Log[j].user_id = Log[k].user_id
        /\ Log[j].timestamp > Log[k].timestamp - span
        /\ Log[j].timestamp <= Log[k].timestamp}

OfType(S, etype) == {j \in S : Log[j].event_type = etype}

---------------------------------------------------------------------------
(* C1 - batch/streaming equivalence.                                       *)

\* C1 (as claimed): for a per-entity chronologically ordered log, the feature
\* vector predict_threat computed for the k-th event equals the vector
\* compute_batch_features gives that event on the full log, for every k.
C1_BatchStreamingEquivalence ==
    Chronological =>
        LET batch == BatchResult IN
        \A k \in 1..Len(history) :
            history[k].features # <<>>
                => history[k].features[1] = FeatureVector(feature_row(batch, k))

---------------------------------------------------------------------------
(* C2 - login_count_1h.                                                    *)

\* C2 (as claimed): on a chronologically ordered log, login_count_1h at event
\* E is the number of the entity's login_success events with a timestamp in
\* (E.ts - 60min, E.ts], events sharing E's timestamp included.
C2_LoginCountTimeWindow ==
    Chronological =>
        LET batch == BatchResult IN
        \A k \in 1..Len(Log) :
            feature_row(batch, k).login_count_1h
                = Cardinality(OfType(InTimeWindow(k, Hour), "login_success"))

\* C2 (amended): on a chronologically ordered log, login_count_1h at event E
\* is the number of the entity's login_success events at or before E in the
\* log with a timestamp later than E.ts - 60min; an event that shares E's
\* timestamp but follows E in the log is not counted.
C2_LoginCountUpToEvent ==
    Chronological =>
        LET batch == BatchResult IN
        \A k \in 1..Len(Log) :
            feature_row(batch, k).login_count_1h
                = Cardinality(OfType(Trailing(k, Hour, FALSE), "login_success"))

\* C2 witness: three logins of one entity in order, the second and third
\* sharing a timestamp exactly one hour after the first: the second counts
\* itself alone (1), the third counts the second and itself (2).
C2_Witness ==
    /\ Chronological
    /\ Len(Log) = 3
    /\ \A k \in 1..3 : Log[k].event_type = "login_success"
                       /\ Log[k].user_id = Log[1].user_id
    /\ Log[3].timestamp = Log[1].timestamp + Hour
    /\ Log[2].timestamp = Log[3].timestamp
    /\ BatchRow(2).login_count_1h = 1
    /\ BatchRow(3).login_count_1h = 2

---------------------------------------------------------------------------
(* C3 - unique_dst_ips_1h.                                                 *)

\* The distinct non-empty destination addresses of a set of log positions.
DstAddresses(S) == {Log[j].dst_ip : j \in {i \in S : Truthy(Log[i].dst_ip)}}

\* C3 (as claimed): unique_dst_ips_1h at event E is the number of distinct
\* non-empty destination addresses among the entity's events up to E in the
\* half-open window (E.ts - 1h, E.ts]; an observation stamped exactly
\* E.ts - 1h is not counted.
C3_UniqueDstHalfOpen ==
    Chronological =>
        LET batch == BatchResult IN
        \A k \in 1..Len(Log) :
            feature_row(batch, k).unique_dst_ips_1h
                = Cardinality(DstAddresses(Trailing(k, Hour, FALSE)))

---------------------------------------------------------------------------
(* C4 - failed_login_rate_1h.                                              *)

\* C4: failed_login_rate_1h at event E is fails / (fails + successes) over
\* the entity's login_fail and login_success events in the one-hour window
\* ending at E, and 0 when the window holds neither.
C4_FailedLoginRate ==
    Chronological =>
        LET batch == BatchResult IN
        \A k \in 1..Len(Log) :
            LET fails == Cardinality(OfType(Trailing(k, Hour, FALSE), "login_fail"))
                succs == Cardinality(OfType(Trailing(k, Hour, FALSE), "login_success"))
                rate == feature_row(batch, k).failed_login_rate_1h
            IN /\ rate[2] > 0
               /\ IF fails + succs = 0 THEN rate[1] = 0
                  ELSE rate[1] * (fails + succs) = fails * rate[2]

\* C4 witness: a log whose first event has no login in its window (rate 0)
\* and whose last event has a failure and a success in its window (rate 1/2).
C4_Witness ==
    /\ Chronological
    /\ Len(Log) = 3
    /\ Log[1].event_type \notin {"login_fail", "login_success"}
    /\ Log[3].event_type = "login_success"
    /\ BatchRow(1).failed_login_rate_1h = <<0, 1>>
    /\ BatchRow(3).failed_login_rate_1h = <<1, 2>>

---------------------------------------------------------------------------
(* C5 - dst_ip_entropy_1h.                                                 *)

\* C5: dst_ip_entropy_1h at an event is 0 when its one-hour destination
\* window (the entity's events up to it that are at most one hour older)
\* holds at most one distinct non-empty address, and strictly positive when
\* it holds two or more; so it is 0 exactly when unique_dst_ips_1h <= 1.
C5_EntropyZeroIffAtMostOne ==
    Chronological =>
        LET batch == BatchResult IN
        \A k \in 1..Len(Log) :
            LET distinct == Cardinality(DstAddresses(Trailing(k, Hour, TRUE)))
                row == feature_row(batch, k)
            IN /\ distinct <= 1 => row.dst_ip_entropy_1h = 0
               /\ distinct >= 2 => row.dst_ip_entropy_1h > 0
               /\ (row.dst_ip_entropy_1h = 0) <=> (row.unique_dst_ips_1h <= 1)

\* C5 witness: one address seen twice (entropy 0), then a second address in
\* the same window (entropy positive).
C5_Witness ==
    /\ Chronological
    /\ Len(Log) = 3
    /\ Truthy(Log[1].dst_ip)
    /\ Log[2].dst_ip = Log[1].dst_ip
    /\ BatchRow(2).unique_dst_ips_1h = 1
    /\ BatchRow(2).dst_ip_entropy_1h = 0
    /\ BatchRow(3).unique_dst_ips_1h = 2
    /\ BatchRow(3).dst_ip_entropy_1h > 0

---------------------------------------------------------------------------
(* C6 - the ensemble score.                                                *)

\* The calls that returned a response.
Answered == {k \in 1..Len(history) : history[k].response # <<>>}

\* C6: the returned threat score is exactly (p_rf + p_xgb) / 2 (the score in
\* two-hundredths over 200 is half the sum of the outputs in hundredths over
\* 100), and two calls with the same event and the same estimator outputs
\* return the same score, level and is_malicious.
C6_EnsembleMeanDeterministic ==
    /\ \A k \in Answered :
        2 * history[k].response[1].threat_score * 100
            = (history[k].outputs[1] + history[k].outputs[2]) * 200
    /\ \A k1, k2 \in Answered :
        (history[k1].event = history[k2].event
         /\ history[k1].outputs = history[k2].outputs)
            => /\ history[k1].response[1].threat_score
                    = history[k2].response[1].threat_score
               /\ history[k1].response[1].threat_level
                    = history[k2].response[1].threat_level
               /\ history[k1].response[1].is_malicious
                    = history[k2].response[1].is_malicious

\* C6 witness: the same event scored twice with the same two unequal
\* estimator outputs, both calls answered, an Alert stored in between.
C6_Witness ==
    /\ Answered = {1, 2}
    /\ history[1].event = history[2].event
    /\ history[1].outputs = history[2].outputs
    /\ history[1].outputs[1] # history[1].outputs[2]
    /\ Len(alerts) = 2

---------------------------------------------------------------------------
(* C7 - threat levels.                                                     *)

ThresholdsOrdered ==
    THRESHOLD_CRITICAL >= THRESHOLD_HIGH /\ THRESHOLD_HIGH >= THRESHOLD_MEDIUM

\* Every score two estimator outputs of Probs can average to.
Scores == 0..(2 * Max(Probs))

\* The level the claim gives a score: inclusive lower bounds, highest wins.
LevelIs(score, level) ==
    /\ score >= THRESHOLD_CRITICAL => level = "critical"
    /\ (THRESHOLD_HIGH <= score /\ score < THRESHOLD_CRITICAL) => level = "high"
    /\ (THRESHOLD_MEDIUM <= score /\ score < THRESHOLD_HIGH) => level = "medium"
    /\ score < THRESHOLD_MEDIUM => level = "low"

\* C7: with thresholds critical >= high >= medium, get_threat_level gives
\* every score the highest level whose threshold it reaches, a score equal to
\* a threshold included, and 'low' below the medium threshold; every
\* returned response carries that level.
C7_InclusiveLowerBounds ==
    ThresholdsOrdered =>
        /\ \A s \in Scores : LevelIs(s, get_threat_level(s))
        /\ \A k \in Answered :
            LevelIs(history[k].response[1].threat_score,
                    history[k].response[1].threat_level)

\* C7 witness: under thresholds critical > high, one response scored exactly
\* the critical threshold is 'critical' and one scored exactly the high
\* threshold is 'high'.
C7_Witness ==
    /\ ThresholdsOrdered
    /\ THRESHOLD_CRITICAL > THRESHOLD_HIGH
    /\ \E k \in Answered :
        /\ history[k].response[1].threat_score = THRESHOLD_CRITICAL
        /\ history[k].response[1].threat_level = "critical"
    /\ \E k \in Answered :
        /\ history[k].response[1].threat_score = THRESHOLD_HIGH
        /\ history[k].response[1].threat_level = "high"

---------------------------------------------------------------------------
(* C8 - the Alert side effect.                                             *)

\* C8: a call that returns a response has stored an Alert exactly when
\* is_malicious (score >= medium threshold); the Alert is in the table when
\* the response exists and carries the event's timestamp and entity and the
\* response's score, level, tactic and technique; every stored Alert belongs
\* to one such call.
C8_AlertIffMalicious ==
    /\ \A k \in Answered :
        LET c == history[k]
            r == c.response[1]
        IN /\ r.is_malicious <=> (r.threat_score >= THRESHOLD_MEDIUM)
           /\ (c.alert_id # 0) <=> r.is_malicious
           /\ c.alert_id # 0 =>
                /\ c.alert_id \in 1..Len(alerts)
                /\ alerts[c.alert_id].id = c.alert_id
                /\ alerts[c.alert_id].timestamp = c.event.timestamp
                /\ alerts[c.alert_id].user_id = c.event.user_id
                /\ alerts[c.alert_id].threat_score = r.threat_score
                /\ alerts[c.alert_id].threat_level = r.threat_level
                /\ alerts[c.alert_id].mitre_tactic = r.mitre_tactic
                /\ alerts[c.alert_id].mitre_technique = r.mitre_technique
    /\ \A a \in 1..Len(alerts) :
        Cardinality({k \in Answered : history[k].alert_id = a}) = 1

\* C8 witness: one answered call below the medium threshold with no Alert,
\* and one answered call at or above it with its Alert stored.
C8_Witness ==
    /\ \E k \in Answered :
        /\ ~history[k].response[1].is_malicious
        /\ history[k].alert_id = 0
    /\ \E k \in Answered :
        /\ history[k].response[1].is_malicious
        /\ history[k].alert_id = Len(alerts)
    /\ Len(alerts) = 1

---------------------------------------------------------------------------
(* C9 - fail fast without an estimator.                                    *)

\* C9: a predict_threat call made while rf_model or xgb_model is unavailable
\* fails with an error, returns no score or level, asks no estimator, and
\* leaves the alerts table as it was.
C9_FailFastWithoutEstimator ==
    [][ ((rf_model = None \/ xgb_model = None) /\ history' # history) =>
            /\ history'[Len(history')].status = 500
            /\ history'[Len(history')].response = <<>>
            /\ history'[Len(history')].outputs = <<>>
            /\ history'[Len(history')].alert_id = 0
            /\ alerts' = alerts ]_vars

\* C9 witness: the first estimator loaded, the second not, and a call made
\* in that state answered with status 500 and no Alert.
C9_Witness ==
    /\ rf_model = "loaded"
    /\ xgb_model = None
    /\ history # <<>>
    /\ history[Len(history)].status = 500
    /\ alerts = <<>>

---------------------------------------------------------------------------
(* C10 - invalid probabilities.                                            *)

\* A probability in hundredths.
ValidProbs == 0..100

\* C10 (as claimed): a call in which an estimator returned a value outside
\* [0, 1] fails, and no Alert is stored for it.
C10_InvalidProbabilityRejected ==
    \A k \in 1..Len(history) :
        (history[k].outputs # <<>>
         /\ (history[k].outputs[1] \notin ValidProbs
             \/ history[k].outputs[2] \notin ValidProbs))
            => /\ history[k].status # 200
               /\ history[k].alert_id = 0

---------------------------------------------------------------------------
(* C11 - a persistence failure is propagated.                              *)

\* The calls whose estimators were asked and whose score is a malicious
\* verdict.
MaliciousCalls ==
    {k \in 1..Len(history) :
        /\ history[k].outputs # <<>>
        /\ is_malicious(ensemble_score(history[k].outputs[1],
                                       history[k].outputs[2]))}

\* C11: a call with a malicious verdict either answers 200 with its Alert
\* recorded in the table, or fails with no PredictionResponse and no Alert;
\* the table holds one Alert per successful malicious call, so a malicious
\* verdict is never reported as success without a recorded Alert.
C11_PersistFailurePropagated ==
    /\ \A k \in MaliciousCalls :
        \/ /\ history[k].status = 200
           /\ history[k].response # <<>>
           /\ history[k].alert_id \in 1..Len(alerts)
           /\ alerts[history[k].alert_id].timestamp = history[k].event.timestamp
        \/ /\ history[k].status = 500
           /\ history[k].response = <<>>
           /\ history[k].alert_id = 0
    /\ Len(alerts) = Cardinality({k \in MaliciousCalls : history[k].status = 200})

\* C11 witness: a malicious verdict whose commit failed (status 500, no
\* response, empty table) after the estimators were asked.
C11_Witness ==
    /\ \E k \in MaliciousCalls :
        /\ history[k].status = 500
        /\ history[k].response = <<>>
    /\ alerts = <<>>

---------------------------------------------------------------------------
(* C12 - one incident per correlation.                                     *)

\* The ids of the Incidents other sessions can see.
Persisted(table) == {i \in 1..Len(table) : table[i].committed}

\* The alerts linked to an Incident.
LinkedTo(table, incident_id) ==
    {a \in 1..Len(table) : table[a].incident_id = incident_id}

\* The correlator calls of one operation that have finished.
Finished(op) == {k \in 1..Len(results) : results[k].op = op}

\* C12 (as claimed): a correlate_alerts call that selected no alert returns
\* None and writes nothing; a call that selected N >= 1 alerts returns an
\* Incident, the only one persisted by its return, whose attack_chain has N
\* entries and which all N selected alerts link to - whatever calls ran
\* before it.
C12_OneIncidentPerCorrelation ==
    [][ (Len(results') = Len(results) + 1
         /\ results'[Len(results')].op = "correlate_alerts") =>
            LET r == results'[Len(results')]
                N == Len(r.alerts)
            IN /\ N = 0 => /\ r.outcome = "None"
                           /\ alerts' = alerts
                           /\ incidents' = incidents
               /\ N >= 1 =>
                    /\ r.outcome = "Incident"
                    /\ Persisted(incidents') \ Persisted(incidents)
                            = {r.incident_id}
                    /\ Len(incidents'[r.incident_id].attack_chain) = N
                    /\ \A a \in Range(r.alerts) :
                            alerts'[a].incident_id = r.incident_id ]_vars

---------------------------------------------------------------------------
(* C13 - an incident and its linked alerts.                                *)

\* C13 (as claimed): every persisted Incident has as many alerts linked to
\* it as its attack_chain has entries, and its start_time and end_time are
\* the least and the greatest timestamp of the alerts linked to it.
C13_IncidentMatchesLinks ==
    \A i \in Persisted(incidents) :
        LET linked == LinkedTo(alerts, i)
            stamps == {alerts[a].timestamp : a \in linked}
        IN /\ Cardinality(linked) = Len(incidents[i].attack_chain)
           /\ linked # {} =>
                /\ incidents[i].start_time = Min(stamps)
                /\ incidents[i].end_time = Max(stamps)

---------------------------------------------------------------------------
(* C14 - concurrent correlations.                                          *)

\* Two finished calls, the k1-th and the k2-th to finish, that ran at the
\* same time: the later one began before the earlier one finished.
Concurrent(k1, k2) == k1 < k2 /\ results[k2].began < k1

\* Whether the selection windows of two finished calls overlap.
WindowsOverlap(k1, k2) ==
    /\ results[k1].window_start <= results[k2].window_end
    /\ results[k2].window_start <= results[k1].window_end

\* C14 (as claimed): two correlate_alerts calls for the same entity that ran
\* at the same time with overlapping windows have not both committed an
\* Incident covering a common alert.
C14_AtMostOneIncident ==
    \A k1, k2 \in Finished("correlate_alerts") :
        ( /\ Concurrent(k1, k2)
          /\ results[k1].user_id = results[k2].user_id
          /\ WindowsOverlap(k1, k2) )
        => ~( /\ results[k1].outcome = "Incident"
              /\ results[k2].outcome = "Incident"
              /\ Range(results[k1].alerts) \cap Range(results[k2].alerts) # {} )

---------------------------------------------------------------------------
(* C15 - the selection window.                                             *)

\* The alerts of an entity stamped in (window_start, window_end].
HalfOpenSelection(user_id, window_start, window_end) ==
    {a \in 1..Len(alerts) :
        /\ alerts[a].user_id = user_id
        /\ window_start < alerts[a].timestamp
        /\ alerts[a].timestamp <= window_end}

\* Whether a call is a correlate_alerts call that has just run its query.
JustSelected(call) ==
    /\ call.op = "correlate_alerts"
    /\ call.window_end = utcnow
    /\ \E w \in CorrelationWindows : call.window_start = utcnow - w

\* C15 (as claimed): a correlate_alerts call made at time now with window w
\* selects exactly the entity's alerts stamped in (now - w, now], whether it
\* goes on to create_incident or returns None, and the attack_chain of the
\* Incident it returns lists the selected alerts by non-decreasing timestamp.
C15_SelectsHalfOpenWindow ==
    [][ /\ \A w \in Workers :
            (sessions[w] = Idle /\ sessions'[w] # Idle
                /\ JustSelected(sessions'[w])) =>
                Range(sessions'[w].alerts) =
                    HalfOpenSelection(sessions'[w].user_id,
                        sessions'[w].window_start, sessions'[w].window_end)
        /\ (Len(results') = Len(results) + 1
            /\ results'[Len(results')].outcome = "None") =>
                HalfOpenSelection(results'[Len(results')].user_id,
                    results'[Len(results')].window_start,
                    results'[Len(results')].window_end) = {}
        /\ (Len(results') = Len(results) + 1
            /\ results'[Len(results')].op = "correlate_alerts"
            /\ results'[Len(results')].outcome = "Incident") =>
                LET r == results'[Len(results')]
                    chain == incidents'[r.incident_id].attack_chain
                IN /\ Len(chain) = Len(r.alerts)
                   /\ \A i \in 1..Len(chain) :
                        chain[i].timestamp = isoformat(alerts[r.alerts[i]].timestamp)
                   /\ \A i \in 1..(Len(chain) - 1) :
                        alerts[r.alerts[i]].timestamp
                            <= alerts[r.alerts[i + 1]].timestamp ]_vars

---------------------------------------------------------------------------
(* C16 - incident severity.                                                *)

\* The finished calls that returned an Incident.
Created == {k \in 1..Len(results) : results[k].outcome = "Incident"}

\* The levels from the least to the greatest.
LevelOrder == <<"low", "medium", "high", "critical">>
LevelRank(level) == CHOOSE i \in 1..Len(LevelOrder) : LevelOrder[i] = level

\* C16: the severity of an Incident created from a non-empty alert list is
\* the level of one of its alerts and no alert of the list has a level of
\* greater rank (low < medium < high < critical); two Incidents created
\* from the same alerts supplied in different orders have the same severity.
C16_SeverityIsMaxLevel ==
    /\ \A k \in Created :
        LET levels == {alerts[a].threat_level : a \in Range(results[k].alerts)}
            severity == incidents[results[k].incident_id].severity
        IN /\ severity \in levels
           /\ \A l \in levels : LevelRank(l) <= LevelRank(severity)
    /\ \A k1, k2 \in Created :
        Range(results[k1].alerts) = Range(results[k2].alerts) =>
            incidents[results[k1].incident_id].severity
                = incidents[results[k2].incident_id].severity

\* C16 witness: an Incident created from a high alert followed by an
\* earlier critical alert of the same entity, with severity critical.
C16_Witness ==
    \E k \in Created :
        /\ Len(results[k].alerts) = 2
        /\ alerts[results[k].alerts[1]].threat_level = "high"
        /\ alerts[results[k].alerts[2]].threat_level = "critical"
        /\ alerts[results[k].alerts[2]].timestamp
                < alerts[results[k].alerts[1]].timestamp
        /\ incidents[results[k].incident_id].severity = "critical"

---------------------------------------------------------------------------
(* C17 - the incident identifier.                                          *)

\* Whether every character of s is a decimal digit.
IsDigits(s) ==
    \A i \in 1..Len(s) : \E d \in 1..Len(Digits) :
        SubSeq(s, i, i) = SubSeq(Digits, d, d)

\* The number a string of decimal digits writes.
RECURSIVE digits_value(_)
digits_value(s) ==
    IF s = "" THEN 0
    ELSE LET last == SubSeq(s, Len(s), Len(s))
             d == CHOOSE i \in 1..Len(Digits) : SubSeq(Digits, i, i) = last
         IN 10 * digits_value(SubSeq(s, 1, Len(s) - 1)) + (d - 1)

\* C17: the identifier of an Incident created from a non-empty alert list,
\* in whatever order the list was supplied, is "INC-", then 14 digits that
\* read as year, month, day, hour, minute and second of the earliest
\* timestamp of the list, then "-", then the entity id of the Incident,
\* which is the entity of an alert with that earliest timestamp.
C17_IncidentNumberFormat ==
    \A k \in Created :
        LET incident == incidents[results[k].incident_id]
            number == incident.incident_number
            earliest == Min({alerts[a].timestamp : a \in Range(results[k].alerts)})
            stamp == SubSeq(number, 5, 18)
        IN /\ Len(number) = 19 + Len(incident.user_id)
           /\ SubSeq(number, 1, 4) = "INC-"
           /\ IsDigits(stamp)
           /\ SubSeq(number, 19, 19) = "-"
           /\ SubSeq(number, 20, Len(number)) = incident.user_id
           /\ \E a \in Range(results[k].alerts) :
                /\ alerts[a].timestamp = earliest
                /\ alerts[a].user_id = incident.user_id
           /\ digits_value(SubSeq(stamp, 1, 4)) = DayZero[1]
           /\ digits_value(SubSeq(stamp, 5, 6)) = DayZero[2]
           /\ digits_value(SubSeq(stamp, 7, 8)) = DayZero[3] + (earliest \div Day)
           /\ digits_value(SubSeq(stamp, 9, 10)) = (earliest % Day) \div Hour
           /\ digits_value(SubSeq(stamp, 11, 12)) = earliest % Hour
           /\ digits_value(SubSeq(stamp, 13, 14)) = 0

\* C17 witness: an Incident created from a list whose first alert is later
\* than its second, numbered after the second.
C17_Witness ==
    \E k \in Created :
        /\ Len(results[k].alerts) = 2
        /\ alerts[results[k].alerts[2]].timestamp
                < alerts[results[k].alerts[1]].timestamp
        /\ alerts[results[k].alerts[2]].timestamp = StartClock - Hour
        /\ incidents[results[k].incident_id].incident_number
                = "INC-20250101170000-user007"

---------------------------------------------------------------------------
(* C18 - the empty alert list.                                             *)

\* C18: a create_incident call handed an empty list ends in ValueError, a
\* correlate_alerts call whose query selected nothing returns None, and
\* neither persists an Incident or changes an alert; ValueError is raised
\* for nothing else, and a correlate_alerts call never enters
\* create_incident with an empty list.
C18_EmptyListRejected ==
    [][ /\ (Len(results') = Len(results) + 1
            /\ results'[Len(results')].alerts = <<>>) =>
                /\ alerts' = alerts
                /\ incidents' = incidents
                /\ results'[Len(results')].op = "create_incident" =>
                        results'[Len(results')].outcome = "ValueError"
                /\ results'[Len(results')].op = "correlate_alerts" =>
                        results'[Len(results')].outcome = "None"
        /\ (Len(results') = Len(results) + 1
            /\ results'[Len(results')].outcome = "ValueError") =>
                /\ results'[Len(results')].op = "create_incident"
                /\ results'[Len(results')].alerts = <<>>
        /\ \A w \in Workers :
            (sessions'[w] # Idle /\ sessions'[w].op = "correlate_alerts") =>
                sessions'[w].alerts # <<>> ]_vars

\* C18 witness: with alerts stored, a create_incident call on the empty list
\* has ended in ValueError, no Incident exists and no alert is linked.
C18_Witness ==
    /\ \E k \in Finished("create_incident") :
        /\ results[k].alerts = <<>>
        /\ results[k].outcome = "ValueError"
    /\ alerts # <<>>
    /\ \A a \in 1..Len(alerts) : alerts[a].incident_id = 0
    /\ incidents = <<>>

---------------------------------------------------------------------------
(* C19 - stage names map to themselves.                                    *)

\* The finished calls of one function.
LookupsOf(fn) == {k \in 1..Len(returned) : returned[k].fn = fn}

\* C19 (as claimed): map_attack_stage called with one of the eleven stage
\* names, in any letter case, returns that stage name.
C19_StageNamesFixed ==
    \A k \in LookupsOf("map_attack_stage") :
        \A n \in StageNames :
            (Truthy(returned[k].args[1]) /\ lower(returned[k].args[1]) = lower(n))
                => returned[k].value = n

---------------------------------------------------------------------------
(* C20 - map_to_mitre is a total table lookup.                             *)

\* Whether the table has a row for the pair.
InTable(threat_type, event_type) ==
    /\ threat_type \in DOMAIN mitre_mapping
    /\ event_type \in DOMAIN mitre_mapping[threat_type]

\* C20: every call of map_to_mitre returns a pair: the table's pair when the
\* (threat category, event type) pair is present, and ("TA0000", "T0000")
\* when it is absent, an unknown or missing threat category included; the
\* call changes nothing but the record of its own return.
C20_TableLookupTotal ==
    \A k \in LookupsOf("map_to_mitre") :
        LET threat_type == returned[k].args[1]
            event_type == returned[k].args[2]
        IN /\ Len(returned[k].value) = 2
           /\ InTable(threat_type, event_type) =>
                returned[k].value = mitre_mapping[threat_type][event_type]
           /\ ~InTable(threat_type, event_type) =>
                returned[k].value = <<"TA0000", "T0000">>

\* C20 witness: one call that hit the table and one call with an unknown
\* category and an event type the table has under another category.
C20_Witness ==
    /\ \E k \in LookupsOf("map_to_mitre") :
        /\ returned[k].args = <<"insider", "email_send">>
        /\ returned[k].value = <<"TA0009", "T1114">>
    /\ \E k \in LookupsOf("map_to_mitre") :
        /\ returned[k].args = <<"ransomware", "file_transfer">>
        /\ returned[k].value = <<"TA0000", "T0000">>

---------------------------------------------------------------------------
(* C21 - placeholders for missing tactic, technique and timestamp.         *)

\* The positions of a list whose alert lacks the tactic, the technique, the
\* timestamp.
NoTactic(alert_list) ==
    {i \in 1..Len(alert_list) : ~Truthy(alert_list[i].mitre_tactic)}
NoTechnique(alert_list) ==
    {i \in 1..Len(alert_list) : ~Truthy(alert_list[i].mitre_technique)}
NoTime(alert_list) ==
    {i \in 1..Len(alert_list) : alert_list[i].timestamp = NoTimestamp}

\* The narrative half: every call on a non-empty list returns one line per
\* alert, and the line of an alert shows the placeholder for what it lacks.
C21_NarrativePlaceholders ==
    \A k \in LookupsOf("generate_narrative") :
        LET alert_list == returned[k].args[1]
            steps == returned[k].value.steps
        IN alert_list # <<>> =>
            /\ Len(steps) = Len(alert_list)
            /\ \A i \in NoTactic(alert_list) : steps[i].tactic = "Unknown Tactic"
            /\ \A i \in NoTechnique(alert_list) :
                    steps[i].technique = "Unknown Technique"
            /\ \A i \in NoTime(alert_list) : steps[i].ts = "unknown time"

\* The attack-chain half: every call returns one entry per alert, and as many
\* entries show a placeholder as alerts lack the value.
C21_ChainPlaceholders ==
    \A k \in LookupsOf("attack_chain") :
        LET alert_list == returned[k].args[1]
            chain == returned[k].value
        IN /\ Len(chain) = Len(alert_list)
           /\ Cardinality({i \in 1..Len(chain) : chain[i].tactic = "Unknown Tactic"})
                = Cardinality(NoTactic(alert_list))
           /\ Cardinality({i \in 1..Len(chain) :
                            chain[i].technique = "Unknown Technique"})
                = Cardinality(NoTechnique(alert_list))
           /\ Cardinality({i \in 1..Len(chain) : chain[i].timestamp = "unknown time"})
                = Cardinality(NoTime(alert_list))

\* C21 (as claimed): narrative and attack-chain generation return for every
\* list, and an alert's missing tactic, technique or timestamp is shown as
\* "Unknown Tactic", "Unknown Technique" or "unknown time" both in its
\* narrative line and in its attack-chain entry.
C21_MissingFieldsAsPlaceholders ==
    C21_NarrativePlaceholders /\ C21_ChainPlaceholders

---------------------------------------------------------------------------
(* C22 - per-entity isolation of the batch features.                       *)

\* The positions of an entity's events in the log, and the log without the
\* events of every other entity.
EventsOf(user) == {k \in 1..Len(Log) : Log[k].user_id = user}
LogOf(user) == SelectSeq(Log, LAMBDA e : e.user_id = user)

\* compute_batch_features on the entity's events alone.
AloneResult(user) ==
    compute_batch_features(
        DataFrame([i \in 1..Len(LogOf(user)) |-> event_row(LogOf(user)[i])]))

\* The k-th event's row in that result.
AloneRow(k) ==
    feature_row(AloneResult(Log[k].user_id),
                Cardinality({j \in EventsOf(Log[k].user_id) : j <= k}))

\* Whether the k-th event is the first of its entity's group: none of the
\* entity's events is earlier, and none with its timestamp precedes it.
FirstOfEntity(k) ==
    \A j \in EventsOf(Log[k].user_id) \ {k} :
        \/ Log[j].timestamp > Log[k].timestamp
        \/ (Log[j].timestamp = Log[k].timestamp /\ j > k)

\* C22: the feature vector compute_batch_features gives an event is the one
\* it gives that event when the events of all other entities are removed
\* from the input, and the vector of an entity's first event is the vector
\* computed from that single event alone.
C22_PerEntityIsolation ==
    LET batch == BatchResult IN
    \A k \in 1..Len(Log) :
        /\ FeatureVector(feature_row(batch, k)) = FeatureVector(AloneRow(k))
        /\ FirstOfEntity(k) =>
            FeatureVector(feature_row(batch, k)) = online_features(Log[k])

\* C22 witness: a transfer of user007, a transfer of user042 to the same
\* address, then an access of user007: the third event counts two addresses
\* and two files of user007 and nothing of user042.
C22_Witness ==
    /\ Len(Log) = 3
    /\ Log[1].user_id = "user007" /\ Log[1].event_type = "file_transfer"
    /\ Log[2].user_id = "user042" /\ Log[2].event_type = "file_transfer"
    /\ Log[3].user_id = "user007" /\ Log[3].event_type = "file_access"
    /\ BatchRow(3).unique_dst_ips_1h = 2
    /\ BatchRow(3).bytes_transferred_1h = 6
    /\ BatchRow(2).unique_dst_ips_1h = 1
    /\ BatchRow(2).bytes_transferred_1h = 5

---------------------------------------------------------------------------
(* C23 - one complete numeric row per event.                               *)

\* The entity's events that the sort puts at or before the k-th event, and
\* those of them in the k-th event's trailing window of `span` minutes
\* (closed: the boundary instant included).
UpTo(k) ==
    {j \in EventsOf(Log[k].user_id) :
        \/ Log[j].timestamp < Log[k].timestamp
        \/ (Log[j].timestamp = Log[k].timestamp /\ j <= k)}
WindowOf(k, span, closed) ==
    {j \in UpTo(k) :
        IF closed THEN Log[j].timestamp >= Log[k].timestamp - span
                  ELSE Log[j].timestamp > Log[k].timestamp - span}

\* A count or sum, and a quotient with a denominator.
IsCount(x) == x \in Nat
IsQuotient(x) == Len(x) = 2 /\ x[1] \in Nat /\ x[2] \in Nat \ {0}

\* All nine fields are there, each with a number.
Complete(row) ==
    /\ \A i \in 1..Len(feature_columns) : feature_columns[i] \in DOMAIN row
    /\ IsCount(row.login_count_1h)
    /\ IsQuotient(row.failed_login_rate_1h)
    /\ IsCount(row.bytes_transferred_1h)
    /\ IsCount(row.unique_dst_ips_1h)
    /\ IsCount(row.unique_files_24h)
    /\ IsQuotient(row.off_hours_ratio_24h)
    /\ row.privilege_change_flag \in {0, 1}
    /\ row.geo_anomaly_score \in {0, 1}
    /\ IsCount(row.dst_ip_entropy_1h)

\* The fields that are 0 because nothing in the window contributes.
ZeroDefaults(k, row) ==
    /\ OfType(WindowOf(k, Hour, FALSE), "login_success") = {}
        => row.login_count_1h = 0
    /\ OfType(WindowOf(k, Hour, FALSE), "login_success")
         \cup OfType(WindowOf(k, Hour, FALSE), "login_fail") = {}
        => row.failed_login_rate_1h = Zero
    /\ (\A j \in WindowOf(k, Hour, FALSE) : Log[j].bytes_transferred = 0)
        => row.bytes_transferred_1h = 0
    /\ (\A j \in WindowOf(k, Hour, TRUE) : ~Truthy(Log[j].dst_ip))
        => row.unique_dst_ips_1h = 0 /\ row.dst_ip_entropy_1h = 0
    /\ (\A j \in WindowOf(k, Day, TRUE) : ~Truthy(Log[j].file_name))
        => row.unique_files_24h = 0
    /\ (\A j \in WindowOf(k, Day, FALSE) : is_off_hours(Log[j].timestamp) = 0)
        => row.off_hours_ratio_24h = Zero

---------------------------------------------------------------------------
(* C24 - the stage of a file_transfer alert, end to end.                   *)

\* The tactic map_to_mitre gives a file_transfer event: TA0010, Exfiltration.
ExfiltrationTactic == mitre_mapping["apt"]["file_transfer"][1]

\* C24 (as claimed): an Alert that predict_threat stores for a file_transfer
\* event carries the exfiltration tactic, and in every incident built from
\* such an alert its attack-chain entry and its narrative line carry the
\* stage "Exfiltration".
C24_FileTransferStageExfiltration ==
    /\ \A k \in 1..Len(alerts) :
        alerts[k].description = "file_transfer"
            => alerts[k].mitre_tactic = ExfiltrationTactic
    /\ \A n \in 1..Len(incidents) :
        \A i \in 1..Len(incidents[n].attack_chain) :
            incidents[n].attack_chain[i].tactic = ExfiltrationTactic
                => /\ incidents[n].attack_chain[i].stage = "Exfiltration"
                   /\ incidents[n].narrative.steps[i].stage = "Exfiltration"

---------------------------------------------------------------------------
(* C25 - first match in the listed order.                                  *)

\* The stage names in the order they are listed.
StageOrder ==
    <<"Initial Access", "Execution", "Persistence", "Privilege Escalation",
      "Defense Evasion", "Credential Access", "Discovery", "Lateral Movement",
      "Collection", "Exfiltration", "Command & Control">>

\* The places in that order of the stage names a tactic contains, whatever
\* the letter case.
StagesIn(mitre_tactic) ==
    {i \in 1..Len(StageOrder) : In(lower(StageOrder[i]), lower(mitre_tactic))}

\* What the claim expects map_attack_stage to return.
FirstStage(mitre_tactic) ==
    IF ~Truthy(mitre_tactic) THEN "Unknown"
    ELSE IF StagesIn(mitre_tactic) = {} THEN "Other"
    ELSE StageOrder[Min(StagesIn(mitre_tactic))]

\* C25 (as claimed): map_attack_stage returns the stage name that comes
\* first in the listed order among those the tactic contains, "Other" for a
\* non-empty tactic that contains none, and "Unknown" for None or "".
C25_FirstMatchInOrder ==
    \A k \in LookupsOf("map_attack_stage") :
        returned[k].value = FirstStage(returned[k].args[1])

\* The same for the tactics that do not name the last stage of the list.
C25_FirstMatchBeforeLast ==
    \A k \in LookupsOf("map_attack_stage") :
        Len(StageOrder) \notin StagesIn(returned[k].args[1])
            => returned[k].value = FirstStage(returned[k].args[1])

---------------------------------------------------------------------------
(* C26 - the deques and their frequency maps agree.                        *)

\* The rows of an entity's group in the order the loop visits them.
LoopRows(user) ==
    sort_index(group_of(
        sort_values(DataFrame([k \in 1..Len(Log) |-> event_row(Log[k])])), user))

\* The frequency map is the multiset of the deque's values: every value of
\* the deque has its number of entries as count, and there is no other key.
CountsMatch(window, counts) ==
    /\ DOMAIN counts = {window[i][2] : i \in 1..Len(window)}
    /\ \A v \in DOMAIN counts :
        /\ counts[v] > 0
        /\ counts[v] = Cardinality({i \in 1..Len(window) : window[i][2] = v})

\* The deque is in time order and holds nothing older than the horizon.
WithinHorizon(window, current_time, horizon) ==
    /\ \A i, j \in 1..Len(window) : i < j => window[i][1] <= window[j][1]
    /\ \A i \in 1..Len(window) : window[i][1] >= current_time - horizon

\* The deque after a step is an end piece of the deque before it, followed
\* by at most the one entry of the step: what left does not come back.
NeverReadmitted(before, after, current_time) ==
    \E drop \in 0..Len(before) :
        LET kept == SubSeq(before, drop + 1, Len(before))
        IN \/ after = kept
           \/ /\ Len(after) = Len(kept) + 1
              /\ SubSeq(after, 1, Len(kept)) = kept
              /\ after[Len(after)][1] = current_time

\* C26: after every step of the per-entity loop, for the 1-hour address
\* window and the 24-hour file window, the frequency map is the multiset of
\* the deque's values (every count positive, no key without an entry), the
\* deque's timestamps do not decrease, no entry is older than the current
\* timestamp minus the horizon, and an evicted entry never returns.
C26_WindowStateConsistent ==
    \A user \in Users :
        LET rows == LoopRows(user) IN
        \A k \in 1..Len(rows) :
            LET st == loop_state(rows, k)
                prev == loop_state(rows, k - 1)
                ts == rows[k].timestamp
            IN /\ CountsMatch(st.one_hour_window, st.one_hour_counts)
               /\ CountsMatch(st.twentyfour_window, st.twentyfour_counts)
               /\ WithinHorizon(st.one_hour_window, ts, Hour)
               /\ WithinHorizon(st.twentyfour_window, ts, Day)
               /\ NeverReadmitted(prev.one_hour_window, st.one_hour_window, ts)
               /\ NeverReadmitted(prev.twentyfour_window, st.twentyfour_window, ts)

\* C26 witness: two transfers of user007 to one address 30 minutes apart and
\* a failed login 80 minutes after the first: the third step evicts the first
\* transfer, the address stays with count 1 (it was 2), and the 24-hour
\* window still holds both file entries.
C26_Witness ==
    /\ Len(LoopRows("user007")) = 3
    /\ LET rows == LoopRows("user007")
           prev == loop_state(rows, 2)
           st == loop_state(rows, 3)
       IN /\ rows[3].event_type = "login_fail"
          /\ Len(prev.one_hour_window) = 2
          /\ prev.one_hour_counts = ("198.51.100.55" :> 2)
          /\ Len(st.one_hour_window) = 1
          /\ st.one_hour_counts = ("198.51.100.55" :> 1)
          /\ st.twentyfour_counts = ("payload.bin" :> 2)

---------------------------------------------------------------------------
(* C27 - is_malicious and the level agree.                                 *)

\* C27: with thresholds ordered medium <= high <= critical, a response says
\* is_malicious exactly when its level is not "low"; every stored Alert has
\* level medium, high or critical and a score at or above the medium
\* threshold, and none has level "low".
C27_MaliciousIffNotLow ==
    ThresholdsOrdered =>
        /\ \A k \in Answered :
            history[k].response[1].is_malicious
                <=> history[k].response[1].threat_level # "low"
        /\ \A a \in 1..Len(alerts) :
            /\ alerts[a].threat_level \in {"medium", "high", "critical"}
            /\ alerts[a].threat_score >= THRESHOLD_MEDIUM

\* C27 witness: with ordered thresholds, a call scoring exactly the medium
\* threshold answered "medium" and malicious with its Alert stored, and a
\* call below it answered "low" and not malicious with none.
C27_Witness ==
    /\ ThresholdsOrdered
    /\ Len(alerts) = 1
    /\ alerts[1].threat_level = "medium"
    /\ alerts[1].threat_score = THRESHOLD_MEDIUM
    /\ \E k \in Answered :
        /\ history[k].alert_id = 1
        /\ history[k].response[1].is_malicious
        /\ history[k].response[1].threat_level = "medium"
    /\ \E k \in Answered :
        /\ history[k].alert_id = 0
        /\ ~history[k].response[1].is_malicious
        /\ history[k].response[1].threat_level = "low"

---------------------------------------------------------------------------
(* C28 - the order of the input rows does not matter.                      *)

\* No two events of one entity share a timestamp.
DistinctTimestamps ==
    \A i, j \in 1..Len(Log) :
        (i # j /\ Log[i].user_id = Log[j].user_id)
            => Log[i].timestamp # Log[j].timestamp

\* compute_batch_features on the log with its rows in the order p.
PermutedResult(p) ==
    compute_batch_features(
        DataFrame([i \in 1..Len(Log) |-> event_row(Log[p[i]])]))

\* C28: when each entity's events have pairwise distinct timestamps, every
\* permutation of the input rows gives every event the feature vector it
\* has in the original order.
C28_OrderIndependent ==
    DistinctTimestamps =>
        LET batch == BatchResult IN
        \A p \in Orderings(1..Len(Log)) :
            LET permuted == PermutedResult(p) IN
            \A i \in 1..Len(Log) :
                FeatureVector(feature_row(permuted, i))
                    = FeatureVector(feature_row(batch, p[i]))

\* C28 witness: three events of user007 submitted latest first; the latest
\* (first row) still counts the files and addresses of the two earlier ones.
C28_Witness ==
    /\ Len(Log) = 3
    /\ DistinctTimestamps
    /\ \A k \in 1..3 : Log[k].user_id = "user007"
    /\ Log[1].timestamp > Log[2].timestamp
    /\ Log[2].timestamp > Log[3].timestamp
    /\ BatchRow(1).unique_files_24h = 2
    /\ BatchRow(1).unique_dst_ips_1h = 2
    /\ BatchRow(1).bytes_transferred_1h = 6
    /\ BatchRow(3).unique_dst_ips_1h = 1

---------------------------------------------------------------------------
(* C29 - the online path does not depend on earlier submissions.           *)

\* C29: two predict_threat calls with the same event and the same estimator
\* outputs return the same feature vector, score, level and is_malicious,
\* whatever was scored or ingested before each of them, and nothing a call
\* computed is kept but its Alert.
C29_HistoryIndependent ==
    \A k1, k2 \in Answered :
        (/\ history[k1].event = history[k2].event
         /\ history[k1].outputs = history[k2].outputs)
            => /\ history[k1].features = history[k2].features
               /\ history[k1].response[1].threat_score
                    = history[k2].response[1].threat_score
               /\ history[k1].response[1].threat_level
                    = history[k2].response[1].threat_level
               /\ history[k1].response[1].is_malicious
                    = history[k2].response[1].is_malicious

\* C29 witness: the login of user007 was ingested twice and scored twice
\* with the same outputs; both answers count one login in the last hour.
C29_Witness ==
    /\ Len(events) = 2
    /\ \A i \in 1..2 :
        events[i].user_id = "user007" /\ events[i].event_type = "login_success"
    /\ Len(history) = 2
    /\ history[1].event.event_type = "login_success"
    /\ history[1].event.user_id = events[1].user_id
    /\ history[1].event.timestamp = events[1].timestamp
    /\ history[2].event = history[1].event
    /\ history[2].outputs = history[1].outputs
    /\ history[1].features[1].login_count_1h = 1
    /\ history[2].features[1].login_count_1h = 1
    /\ history[2].response = history[1].response

---------------------------------------------------------------------------
(* C30 - what a correlate_alerts call leaves alone.                        *)

\* A step of a correlator call: a call began, moved on or finished.
CorrelatorStep == sessions' # sessions \/ results' # results

\* The call that finished in this step, if one did.
JustFinished == results'[Len(results')]

\* Alert a is one the linking call of worker w selected: in its list, of its
\* entity, with a timestamp not outside its window.
SelectedBy(w, a) ==
    /\ sessions[w].pc = "link"
    /\ sessions'[w] = Idle
    /\ a \in Range(sessions[w].alerts)
    /\ alerts[a].user_id = sessions[w].user_id
    /\ alerts[a].timestamp >= sessions[w].window_start
    /\ alerts[a].timestamp <= sessions[w].window_end

\* C30: a step of a correlate_alerts call changes no alert field but
\* incident_id, and that only on alerts the call selected (its entity's, in
\* its window), setting it to the call's own Incident as the call returns
\* it; it adds at most one Incident and changes no Incident that was there
\* (its own becomes visible at the commit); a call that returns None or
\* raises leaves every alert and every Incident as it was; models,
\* thresholds, events, scoring history and clock are not touched.
C30_CorrelationFrame ==
    [][ CorrelatorStep =>
        /\ UNCHANGED <<rf_model, xgb_model, scaler, THRESHOLD_CRITICAL,
                       THRESHOLD_HIGH, THRESHOLD_MEDIUM, events, history,
                       utcnow, returned>>
        /\ Len(alerts') = Len(alerts)
        /\ \A a \in 1..Len(alerts) :
            /\ [alerts'[a] EXCEPT !.incident_id = alerts[a].incident_id]
                    = alerts[a]
            /\ alerts'[a].incident_id # alerts[a].incident_id =>
                /\ Len(results') = Len(results) + 1
                /\ JustFinished.outcome = "Incident"
                /\ alerts'[a].incident_id = JustFinished.incident_id
                /\ \E w \in Workers : SelectedBy(w, a)
        /\ Len(incidents') \in {Len(incidents), Len(incidents) + 1}
        /\ \A n \in 1..Len(incidents) :
            /\ [incidents'[n] EXCEPT !.committed = incidents[n].committed]
                    = incidents[n]
            /\ incidents[n].committed => incidents'[n].committed
        /\ (results' # results /\ JustFinished.outcome # "Incident")
            => alerts' = alerts /\ incidents' = incidents
      ]_vars

\* C30 witness: a correlate_alerts call returned an Incident and its alert
\* is linked to it, while another alert of the same entity outside the
\* call's window and an alert of the other entity are linked to nothing.
C30_Witness ==
    \E k \in 1..Len(results) :
        /\ results[k].op = "correlate_alerts"
        /\ results[k].outcome = "Incident"
        /\ \A a \in Range(results[k].alerts) :
            alerts[a].incident_id = results[k].incident_id
        /\ \E b \in 1..Len(alerts) :
            /\ b \notin Range(results[k].alerts)
            /\ alerts[b].incident_id = 0
            /\ \/ alerts[b].user_id # results[k].user_id
               \/ alerts[b].timestamp < results[k].window_start
               \/ alerts[b].timestamp > results[k].window_end

=============================================================================
